---- MODULE Spec2Model ----
(***************************************************************************)
(* grimoiresync: the incremental sync engine (sync_engine.run_sync), the   *)
(* sync state store (sync_state.SyncState), the note composer              *)
(* (note_writer) and the debounced watcher (watcher).                      *)
(*                                                                         *)
(* Text is modelled as sequences of tokens: a title is a sequence of       *)
(* characters/words, a file name a sequence of such tokens, the content of *)
(* a note a sequence of lines.  A path is <<dir, name>> with dir the       *)
(* directory relative to the vault root ("" is the vault root itself).     *)
(***************************************************************************)
EXTENDS Integers, Sequences, FiniteSets, TLC

\* ------------------------------------------------------------------ bounds
MaxEdits == 3      \* writes of the source application to the cache file
MaxEvents == 2     \* writes to the cache directory during a watch session
MaxLaunch == 2     \* processes started (one-shot runs / watch sessions)
MaxFaults == 1     \* I/O failures the environment injects
MaxMoves == 1      \* manual moves of note files by the user
MaxDecodes == 2    \* parse_cache calls on one cache
MaxSegments == 3   \* pieces a text given to inject_wikilinks is made of
MaxMarkedEdits == 2  \* cache writes in the runs over a vault with marked notes

\* ------------------------------------------------------- inputs and config
DocIds == {"d1", "d2"}
DocOrder == <<"d1", "d2">>
Titles == {<<"a">>, <<"b">>, <<"a", ":">>}
CreatedAt == 1

vault_path == ""
notes_subfolder == "Meetings"
\* The configuration modelled has auto_wikilinks off: run_sync then scans no
\* vault terms and leaves the composed content as assemble_note gave it.
auto_wikilinks == FALSE
OtherDir == "Archive"
Dirs == {notes_subfolder, OtherDir, vault_path}

\* Config.notes_dir
notes_dir == IF notes_subfolder # "" THEN notes_subfolder ELSE vault_path

VARIABLES
    cache,      \* the cache file: [exists, docs], docs: id -> raw document
    vault,      \* the vault's markdown files: path -> content (lines)
    disk,       \* the sync state file: [kind, map]; kind: "absent", "json" (a
                \* JSON object), "torn" (cut-off JSON), "unreadable" (read
                \* fails with OSError), "undecodable" (bytes that are not
                \* UTF-8), "scalar" (valid JSON that is null or a number)
    mem,        \* SyncState._state of the running process
    pass,       \* run_sync activations: pass id -> locals and position
    clock,      \* wall clock (datetime.now), advanced at each launch
    faults,     \* I/O failures injected so far
    moves,      \* user moves so far
    edits,      \* cache writes so far
    proc,       \* the process: [mode, n]: what runs, how many were started
    timers,     \* the threading.Timer objects made so far, by id: their state
    handler,    \* _CacheEventHandler: [timer: self._timer (0: None), queue:
                \* the events the observer has still to deliver]
    hist        \* history kept for the properties (never read by the program):
                \* run: per pass, the state it started from and what it did;
                \* complete: the last one-shot run wrote and recorded every
                \* candidate; touched: the cache, the vault or the state file
                \* was changed from outside since;
                \* bursts, overlap: see OnModified and Enter; load_exc: the
                \* exception SyncState() raised at a launch ("": none);
                \* cleared: the map clear() emptied at this launch, if any

vars == <<cache, vault, disk, mem, pass, clock, faults, moves, edits, proc,
          timers, handler, hist>>

\* --------------------------------------------------------------- helpers
Range(s) == {s[i] : i \in 1..Len(s)}

\* f with key k set to v (dict assignment / file creation)
Put(f, k, v) == [x \in DOMAIN f \cup {k} |-> IF x = k THEN v ELSE f[x]]

\* f without key k (file deletion)
Drop(f, k) == [x \in DOMAIN f \ {k} |-> f[x]]

Empty == [x \in {} |-> 0]

\* ------------------------------------------------------------ note_writer
InvalidFilenameChars == {"<", ">", ":", "\"", "/", "\\", "|", "?", "*"}
Whitespace == {" "}
DateTokens == {"2024-06-15"}
DateSeparators == {" ", "-"}

RECURSIVE lstrip(_)
lstrip(s) == IF s # <<>> /\ Head(s) \in Whitespace THEN lstrip(Tail(s)) ELSE s

RECURSIVE rstrip(_)
rstrip(s) ==
    IF s # <<>> /\ s[Len(s)] \in Whitespace
    THEN rstrip(SubSeq(s, 1, Len(s) - 1)) ELSE s

strip(s) == rstrip(lstrip(s))

IsValidChar(c) == c \notin InvalidFilenameChars

\* _DATE_PREFIX_RE.match
DatePrefixMatch(title) ==
    Len(title) >= 2 /\ title[1] \in DateTokens /\ title[2] \in DateSeparators

\* strftime("%Y-%m-%d"): the calendar date of an instant (one per unit)
strftime(dt) == "D" \o ToString(dt)

make_filename(doc) ==
    LET title0 == IF doc.title = <<>> THEN <<"Untitled Meeting">> ELSE doc.title
        title == strip(SelectSeq(title0, IsValidChar))
    IN  IF DatePrefixMatch(title)
        THEN title \o <<".md">>
        ELSE <<strftime(doc.created_at), " ", "-", " ">> \o title \o <<".md">>

\* build_frontmatter: defined by the module, called by nothing
build_frontmatter(doc) ==
    <<"---", "title: ", "date: ", "attendees: ", "granola_id: " \o doc.id,
      "tags: ", "aliases: ", "---">>

\* build_body for a document without attendees, panels and transcript:
\* the only section is the stripped notes text
build_body(doc) ==
    IF doc.notes_markdown # <<>> THEN doc.notes_markdown ELSE <<>>

\* assemble_note: body + "\n" (the text after the last newline is the empty
\* last line)
assemble_note(doc) == build_body(doc) \o <<"">>

\* ------------------------------------------------------------- datetime
\* Timestamps are whole units of UTC time; isoformat gives their text.
isoformat(dt) == "T" \o ToString(dt)

\* Wall-clock readings start above every timestamp a cache document carries.
ClockStart == 10

\* ---------------------------------------------------------- cache_parser
\* Raw JSON values of a timestamp field.  A number n counts units of 10^9
\* seconds (or, read as milliseconds, of 10^9 ms); a string is given by its
\* form and the instant or number it spells.
Absent == [type |-> "none", form |-> "", n |-> 0]
Number(n) == [type |-> "number", form |-> "finite", n |-> n]
Infinity == [type |-> "number", form |-> "inf", n |-> 0]
NaN == [type |-> "number", form |-> "nan", n |-> 0]
String(form, n) == [type |-> "string", form |-> form, n |-> n]

\* the strptime formats of _parse_timestamp
IsoFormats == {"%Y-%m-%dT%H:%M:%S.%fZ", "%Y-%m-%dT%H:%M:%SZ", "%Y-%m-%dT%H:%M:%S"}

\* the strings float() accepts: decimal numbers, "inf", "nan"
FloatForms == {"finite", "inf", "nan"}

\* `value > 1e12`: 10^12 s are 1000 units
MillisThreshold == 1000

\* datetime.max (year 9999) and datetime.min (year 1), in units from 1970
MaxDatetime == 253
MinDatetime == -62

\* the result of a call: the value returned, or the exception raised
Returns(x) == [exc |-> "", val |-> x]
Raises(e) == [exc |-> e, val |-> 0]

\* Python truth of a raw value, and `a or b`
Truthy(v) ==
    CASE v.type = "none" -> FALSE
      [] v.type = "number" -> ~(v.form = "finite" /\ v.n = 0)
      [] v.type = "string" -> v.form # ""
      [] OTHER -> TRUE

Or(a, b) == IF Truthy(a) THEN a ELSE b

\* _parse_timestamp lines 54-58, the int/float branch: values above the
\* threshold are taken as milliseconds; datetime.fromtimestamp raises
\* OverflowError for infinity and ValueError for NaN and for an instant
\* outside the years 1..9999.
parse_number(value) ==
    LET n == IF value.n > MillisThreshold THEN value.n \div 1000 ELSE value.n
    IN  CASE value.form = "inf" -> Raises("OverflowError")
          [] value.form = "nan" -> Raises("ValueError")
          [] OTHER -> IF n >= MinDatetime /\ n <= MaxDatetime
                      THEN Returns(n) ELSE Raises("ValueError")

\* an ISO string without the trailing Z is not accepted
parse_timestamp_z_only(value, now) ==
    CASE value.type = "none" -> Returns(now)
      [] value.type = "number" -> parse_number(value)
      [] value.type = "string" ->
            IF value.form \in IsoFormats \ {"%Y-%m-%dT%H:%M:%S"}
            THEN Returns(value.n) ELSE Returns(now)
      [] OTHER -> Returns(now)

\* _parse_timestamp: None gives the present moment; a number goes through
\* fromtimestamp; a string is tried against the three formats, then as a
\* number (only ValueError is caught there), and else gives the present
\* moment, as does any other type.
parse_timestamp(value, now) ==
    CASE value.type = "none" -> Returns(now)
      [] value.type = "number" -> parse_number(value)
      [] value.type = "string" ->
            IF value.form \in IsoFormats THEN Returns(value.n)
            ELSE IF value.form \in FloatForms
            THEN LET r == parse_number(value)
                 IN  IF r.exc = "ValueError" THEN Returns(now) ELSE r
            ELSE Returns(now)
      [] OTHER -> Returns(now)

\* Attendee(name, email, is_organizer) from an entry of meetingsMetadata or
\* of people.attendees ("" stands for a key that is absent)
PersonAttendee(person) ==
    [name |-> IF person.name # "" THEN person.name
              ELSE IF person.email # "" THEN person.email ELSE "Unknown",
     email |-> person.email,
     is_organizer |-> person.organizer]

\* Attendee from an entry of google_calendar_event.attendees (name holds
\* displayName)
CalendarAttendee(gcal_att) ==
    [name |-> IF gcal_att.name # "" THEN gcal_att.name
              ELSE IF gcal_att.email # "" THEN gcal_att.email ELSE "Unknown",
     email |-> gcal_att.email,
     is_organizer |-> gcal_att.organizer]

PersonAttendees(list) == [k \in 1..Len(list) |-> PersonAttendee(list[k])]
CalendarAttendees(list) == [k \in 1..Len(list) |-> CalendarAttendee(list[k])]

AllDicts(list) == \A k \in 1..Len(list) : list[k].dict

\* every source is appended to the result
parse_attendees_merged(doc) ==
    LET gcal == IF doc.gcal.dict THEN doc.gcal.attendees ELSE <<>>
        people == IF doc.people.dict THEN doc.people.attendees ELSE <<>>
    IN  IF AllDicts(doc.meta \o people \o gcal)
        THEN Returns(CalendarAttendees(gcal)
                     \o PersonAttendees(doc.meta \o people))
        ELSE Raises("AttributeError")

\* _parse_document lines 115-149: attendee_list is the meeting metadata's
\* list, else people.attendees; only when both are empty the calendar
\* event's attendees are converted; attendee_list is converted when no
\* calendar attendee was.  An entry that is no dict raises AttributeError.
parse_attendees(doc) ==
    LET attendee_list1 == doc.meta
        attendee_list2 == IF attendee_list1 = <<>> /\ doc.people.dict
                          THEN doc.people.attendees
                          ELSE attendee_list1
        gcal == IF attendee_list2 = <<>> /\ doc.gcal.dict
                THEN doc.gcal.attendees ELSE <<>>
    IN  IF ~AllDicts(gcal) THEN Raises("AttributeError")
        ELSE IF gcal # <<>> THEN Returns(CalendarAttendees(gcal))
        ELSE IF ~AllDicts(attendee_list2) THEN Raises("AttributeError")
        ELSE Returns(PersonAttendees(attendee_list2))

\* _parse_document: the fields of GranolaDocument this model follows, or
\* the exception that leaves it
parse_document(doc_id, doc, now) ==
    LET created_at == parse_timestamp(Or(doc.created_at, doc.createdAt), now)
        updated_at == parse_timestamp(Or(doc.updated_at, doc.updatedAt), now)
        attendees == parse_attendees(doc)
    IN  IF created_at.exc # "" THEN Raises(created_at.exc)
        ELSE IF updated_at.exc # "" THEN Raises(updated_at.exc)
        ELSE IF attendees.exc # "" THEN Raises(attendees.exc)
        ELSE Returns([id |-> doc_id,
                      title |-> doc.title,
                      created_at |-> created_at.val,
                      updated_at |-> updated_at.val,
                      notes_markdown |-> doc.notes_markdown,
                      attendees |-> attendees.val])

is_deleted_never(doc) == FALSE

\* parse_cache line 35: `if doc.get("deleted_at")`
is_deleted(doc) == doc.deleted_at

\* parse_cache lines 33-47: `doc.get("deleted_at")` is outside the try,
\* so a record that is no dict raises AttributeError out of parse_cache;
\* a record flagged deleted is skipped; a record whose _parse_document
\* raises is logged and left out; the others are returned in the order of
\* the cache's map.
parse_cache(c, now) ==
    LET Present(id) == id \in DOMAIN c.docs
        Kept(id) ==
            /\ ~is_deleted(c.docs[id])
            /\ parse_document(id, c.docs[id], now).exc = ""
        ids == SelectSeq(SelectSeq(DocOrder, Present), Kept)
    IN  IF \E id \in DOMAIN c.docs : ~c.docs[id].dict
        THEN Raises("AttributeError")
        ELSE Returns([k \in 1..Len(ids) |->
                         parse_document(ids[k], c.docs[ids[k]], now).val])

\* -------------------------------------------------------------- SyncState
\* SyncState._load: an absent file, OSError and JSONDecodeError give {}
load(d) == IF d.kind = "json" THEN d.map ELSE Empty

\* The exception that leaves SyncState._load ("": none): `except
\* (json.JSONDecodeError, OSError)` lets through the UnicodeDecodeError of
\* read_text and the TypeError of len(self._state) in the log.debug call
\* when the file holds null or a number.
load_exception(d) ==
    CASE d.kind = "undecodable" -> "UnicodeDecodeError"
      [] d.kind = "scalar" -> "TypeError"
      [] OTHER -> ""

\* SyncState._save, when the write goes through
save(m) == [kind |-> "json", map |-> m]

TornFile == [kind |-> "torn", map |-> Empty]
AbsentFile == [kind |-> "absent", map |-> Empty]

needs_sync_always(st, doc_id, updated_at) == TRUE

needs_sync_known_only(st, doc_id, updated_at) ==
    doc_id \in DOMAIN st /\ st[doc_id].updated_at # isoformat(updated_at)

\* a chronological comparison: only a newer timestamp counts as a change
needs_sync_if_newer(st, doc_id, updated_at) ==
    IF doc_id \notin DOMAIN st THEN TRUE
    ELSE \E t \in 0..updated_at :
            t < updated_at /\ st[doc_id].updated_at = isoformat(t)

\* SyncState.needs_sync
needs_sync(st, doc_id, updated_at) ==
    IF doc_id \notin DOMAIN st THEN TRUE
    ELSE st[doc_id].updated_at # isoformat(updated_at)

\* SyncState.record_sync, the in-memory part
record_sync(st, doc_id, updated_at, filename, now) ==
    Put(st, doc_id, [updated_at |-> isoformat(updated_at),
                     filename |-> filename,
                     synced_at |-> isoformat(now)])

\* SyncState.clear, which the tests and the command line's --force flag
\* call: the map is emptied (and then saved)
clear(st) == Empty

\* SyncState.get_previous_filename (<<>> stands for None)
get_previous_filename(st, doc_id) ==
    IF doc_id \in DOMAIN st THEN st[doc_id].filename ELSE <<>>

\* ------------------------------------------------------------ sync_engine
\* The leading lines of a file that f.read(1024) takes in.
HeadLines == 8

needle(granola_id) == "granola_id: " \o granola_id

head(text) == SubSeq(text, 1, IF Len(text) < HeadLines THEN Len(text) ELSE HeadLines)

\* The files find_note_by_granola_id can return: rglob yields the files in
\* directory order, which the program does not control, so any file whose
\* head holds the needle may be the first one met.
FindMatches(v, granola_id) ==
    {p \in DOMAIN v : needle(granola_id) \in Range(head(v[p].text))}

\* find_note_by_granola_id: its possible results (<<>> stands for None)
find_note_by_granola_id(v, granola_id) ==
    IF FindMatches(v, granola_id) = {} THEN {<<>>} ELSE FindMatches(v, granola_id)

\* str(filepath.relative_to(config.vault_path)): the components joined by "/"
relative_to(path) == IF path[1] = vault_path THEN <<path[2]>> ELSE <<path[1], path[2]>>

\* `"/" in old_stored_path or "\\" in old_stored_path`
HasSeparator(stored) == Len(stored) > 1

\* run_sync lines 80-86: the stored path made absolute (<<>> stands for None)
old_abs_of(old_stored_path) ==
    IF old_stored_path # <<>>
    THEN IF HasSeparator(old_stored_path)
         THEN <<old_stored_path[1], old_stored_path[2]>>
         ELSE <<notes_dir, old_stored_path[1]>>
    ELSE <<>>

\* ------------------------------------------------------ run_sync, stepwise
\* Pass 0 runs on the main thread; pass t > 0 runs on the thread of timer t.
PassIds == 0..MaxEvents

\* A run_sync activation that has not started.
IdlePass ==
    [pc |-> "idle", dry_run |-> FALSE, to_sync |-> <<>>, i |-> 0,
     written |-> 0, content |-> <<>>, new_filename |-> <<>>,
     target_dir |-> "", victim |-> <<>>, filepath |-> <<>>,
     payload |-> Empty, ret |-> -1, raised |-> FALSE]

\* What the properties remember of one activation.
IdleRun ==
    [vault0 |-> Empty, mem0 |-> Empty, disk0 |-> AbsentFile,
     cache0 |-> [exists |-> FALSE, docs |-> Empty], documents |-> <<>>,
     writes |-> 0, unlinks |-> 0, records |-> 0, failed |-> <<>>,
     old_abs |-> <<>>, old_exists |-> FALSE, expected_exists |-> FALSE]

\* The outcomes of an I/O step: it goes through, or, while the environment
\* still has failures to inject, it fails in one of the given ways.
Outcomes(kinds) == {"ok"} \cup (IF faults < MaxFaults THEN kinds ELSE {})

Injected(o) == faults' = faults + (IF o = "ok" THEN 0 ELSE 1)

\* The document the loop of run_sync is at.
Doc(p) == pass[p].to_sync[pass[p].i]

\* run_sync is entered: nothing has run yet.
Enter(p, dry, m) ==
    /\ pass' = [pass EXCEPT ![p] = [IdlePass EXCEPT !.pc = "load", !.dry_run = dry]]
    /\ hist' = [hist EXCEPT
           !.run[p] = [IdleRun EXCEPT !.vault0 = vault, !.mem0 = m, !.disk0 = disk],
           !.overlap = @ \/ \E q \in PassIds : pass[q].pc \notin {"idle", "done"}]

\* `return n` or an exception leaving run_sync
Return(r, n, exc) == [r EXCEPT !.pc = "done", !.ret = n, !.raised = exc]

\* The loop moves on: the next document, or `return written`.
Advance(r) ==
    IF r.i < Len(r.to_sync)
    THEN [r EXCEPT !.pc = "compose", !.i = r.i + 1]
    ELSE Return(r, r.written, FALSE)

after_exception_abort(r) == Return(r, r.written, FALSE)

\* run_sync lines 119-120: the handler only logs, the loop goes on
after_exception(r) == Advance(r)

\* `except Exception: log.error(...)`: the document is given up.
Except(p) ==
    /\ pass' = [pass EXCEPT ![p] = after_exception(pass[p])]
    /\ hist' = [hist EXCEPT !.run[p].failed =
                   Append(@, [id |-> Doc(p).id, at |-> pass[p].pc])]

\* run_sync lines 38-57: read the cache, filter with needs_sync.
PassLoad(p) ==
    /\ pass[p].pc = "load"
    /\ \E o \in Outcomes({"parse"}) :
        /\ Injected(o)
        /\ IF o = "parse" \/ parse_cache(cache, clock).exc # ""
           THEN \* read_text, json.loads or parse_cache raised: run_sync raises
                /\ pass' = [pass EXCEPT ![p] = Return(@, -1, TRUE)]
                /\ hist' = [hist EXCEPT !.run[p].cache0 = cache]
                /\ clock' = clock
           ELSE LET documents == parse_cache(cache, clock).val
                    Needs(doc) == needs_sync(mem, doc.id, doc.updated_at)
                    to_sync == SelectSeq(documents, Needs)
                IN  /\ clock' = IF cache.exists THEN clock + 1 ELSE clock
                    /\ hist' = [hist EXCEPT !.run[p].cache0 = cache,
                                            !.run[p].documents =
                                                IF cache.exists THEN documents ELSE <<>>]
                    /\ pass' = [pass EXCEPT ![p] =
                         IF ~cache.exists \/ documents = <<>> \/ to_sync = <<>>
                         THEN Return(@, 0, FALSE)
                         ELSE [@ EXCEPT !.pc = "compose", !.to_sync = to_sync,
                                        !.i = 1, !.written = 0]]
    /\ UNCHANGED <<cache, vault, disk, mem, moves, edits, proc, timers, handler>>

should_unlink_always(name, new_filename, dry_run) == name # new_filename

should_unlink_never(name, new_filename, dry_run) == FALSE

\* run_sync lines 95 and 103: the old file goes when the name changed
should_unlink(name, new_filename, dry_run) == name # new_filename /\ ~dry_run

\* the vault is never searched for a note that has moved
resolve_target_no_search(v, doc_id, new_filename, old_stored_path, dry_run, found) ==
    LET old_abs == old_abs_of(old_stored_path)
        expected_path == <<notes_dir, new_filename>>
    IN  IF expected_path \in DOMAIN v
        THEN [target_dir |-> notes_dir, victim |-> <<>>]
        ELSE IF old_abs # <<>> /\ old_abs \in DOMAIN v
        THEN [target_dir |-> old_abs[1],
              victim |-> IF should_unlink(old_abs[2], new_filename, dry_run)
                         THEN old_abs ELSE <<>>]
        ELSE [target_dir |-> notes_dir, victim |-> <<>>]

\* run_sync lines 91-109: where to write, and which file to remove first.
\* The result is [target_dir, victim]; victim is the file to unlink or <<>>.
resolve_target(v, doc_id, new_filename, old_stored_path, dry_run, found) ==
    LET old_abs == old_abs_of(old_stored_path)
        expected_path == <<notes_dir, new_filename>>
    IN  IF expected_path \in DOMAIN v
        THEN [target_dir |-> notes_dir, victim |-> <<>>]
        ELSE IF old_abs # <<>> /\ old_abs \in DOMAIN v
        THEN [target_dir |-> old_abs[1],
              victim |-> IF should_unlink(old_abs[2], new_filename, dry_run)
                         THEN old_abs ELSE <<>>]
        ELSE IF old_stored_path # <<>>
        THEN IF found # <<>>
             THEN [target_dir |-> found[1],
                   victim |-> IF should_unlink(found[2], new_filename, dry_run)
                              THEN found ELSE <<>>]
             ELSE [target_dir |-> notes_dir, victim |-> <<>>]
        ELSE [target_dir |-> notes_dir, victim |-> <<>>]

\* run_sync lines 67-109 for one document: compose the note, compute the
\* file name, look up the stored path, resolve the target directory.
PassCompose(p) ==
    /\ pass[p].pc = "compose"
    /\ \E o \in Outcomes({"compose"}) :
        /\ Injected(o)
        /\ IF o = "compose"
           THEN Except(p)
           ELSE \E found \in find_note_by_granola_id(vault, Doc(p).id) :
                LET doc == Doc(p)
                    new_filename == make_filename(doc)
                    old_stored_path == get_previous_filename(mem, doc.id)
                    t == resolve_target(vault, doc.id, new_filename,
                                        old_stored_path, pass[p].dry_run, found)
                IN  /\ pass' = [pass EXCEPT ![p] =
                           [@ EXCEPT !.content = assemble_note(doc),
                                     !.new_filename = new_filename,
                                     !.target_dir = t.target_dir,
                                     !.victim = t.victim,
                                     !.filepath = <<>>,
                                     !.pc = IF t.victim # <<>> THEN "unlink"
                                            ELSE "write"]]
                    /\ hist' = [hist EXCEPT
                           !.run[p].old_abs = old_abs_of(old_stored_path),
                           !.run[p].old_exists =
                               old_abs_of(old_stored_path) \in DOMAIN vault,
                           !.run[p].expected_exists =
                               <<notes_dir, new_filename>> \in DOMAIN vault]
    /\ UNCHANGED <<cache, vault, disk, mem, clock, moves, edits, proc, timers, handler>>

\* old_abs.unlink() / found.unlink(): raises when the file is gone or the
\* removal is refused.
PassUnlink(p) ==
    /\ pass[p].pc = "unlink"
    /\ \E o \in Outcomes({"unlink"}) :
        /\ Injected(o)
        /\ IF o = "ok" /\ pass[p].victim \in DOMAIN vault
           THEN /\ vault' = Drop(vault, pass[p].victim)
                /\ pass' = [pass EXCEPT ![p].pc = "write"]
                /\ hist' = [hist EXCEPT !.run[p].unlinks = @ + 1]
           ELSE /\ vault' = vault
                /\ Except(p)
    /\ UNCHANGED <<cache, disk, mem, clock, moves, edits, proc, timers, handler>>

\* A file of the vault: its text, and (for the properties only) the document
\* it was generated from.
NoteFile(text, doc_id) == [text |-> text, doc |-> doc_id]

\* write_note's effect on the vault when it does write
write_text(v, filepath, content, doc_id) == Put(v, filepath, NoteFile(content, doc_id))

write_note_path(doc, dir) == <<dir, make_filename(doc)>>

should_record_always(dry_run) == TRUE

\* run_sync line 113: `if not dry_run:`
should_record(dry_run) == ~dry_run

\* write_note, then (dry run) `written += 1`.  A failed write leaves the
\* vault as it was (mkdir or open refused) or leaves the file cut short
\* (the write itself failed after the file was opened and truncated).
PassWrite(p) ==
    /\ pass[p].pc = "write"
    /\ LET filepath == write_note_path(Doc(p), pass[p].target_dir)
       IN  IF pass[p].dry_run
           THEN /\ pass' = [pass EXCEPT ![p] =
                      IF should_record(pass[p].dry_run)
                      THEN [@ EXCEPT !.filepath = filepath, !.pc = "record"]
                      ELSE Advance([@ EXCEPT !.filepath = filepath, !.written = @ + 1])]
                /\ UNCHANGED <<vault, faults, hist>>
           ELSE \E o \in Outcomes({"write_open", "write_cut"}) :
                /\ Injected(o)
                /\ IF o = "ok"
                   THEN /\ vault' = write_text(vault, filepath, pass[p].content, Doc(p).id)
                        /\ pass' = [pass EXCEPT ![p] =
                              IF should_record(pass[p].dry_run)
                              THEN [@ EXCEPT !.filepath = filepath, !.pc = "record"]
                              ELSE Advance([@ EXCEPT !.filepath = filepath,
                                                     !.written = @ + 1])]
                        /\ hist' = [hist EXCEPT !.run[p].writes = @ + 1]
                   ELSE /\ vault' = IF o = "write_cut"
                                    THEN write_text(vault, filepath, <<>>, Doc(p).id)
                                    ELSE vault
                        /\ Except(p)
    /\ UNCHANGED <<cache, disk, mem, clock, moves, edits, proc, timers, handler>>

\* run_sync lines 113-115, record_sync up to json.dumps: the entry is put
\* into the map in memory and _save serialises the map as it then is.
PassRecord(p) ==
    /\ pass[p].pc = "record"
    /\ LET rel_path == relative_to(pass[p].filepath)
           st == record_sync(mem, Doc(p).id, Doc(p).updated_at, rel_path, clock)
       IN  /\ mem' = st
           /\ pass' = [pass EXCEPT ![p] = [@ EXCEPT !.pc = "save", !.payload = st]]
           /\ hist' = [hist EXCEPT !.run[p].records = @ + 1]
    /\ UNCHANGED <<cache, vault, disk, clock, faults, moves, edits, proc, timers,
                   handler>>

\* _save, the write_text of the serialised map, then `written += 1` (line
\* 117).  A failed save leaves the file as it was (open refused) or cut
\* short, and raises into the handler of the loop.
PassSave(p) ==
    /\ pass[p].pc = "save"
    /\ \E o \in Outcomes({"save_open", "save_cut"}) :
        /\ Injected(o)
        /\ IF o = "ok"
           THEN /\ disk' = save(pass[p].payload)
                /\ pass' = [pass EXCEPT ![p] = Advance([@ EXCEPT !.written = @ + 1])]
                /\ hist' = hist
           ELSE /\ disk' = IF o = "save_cut" THEN TornFile ELSE disk
                /\ pass' = [pass EXCEPT ![p] = after_exception(pass[p])]
                /\ hist' = [hist EXCEPT !.run[p].failed =
                               Append(@, [id |-> Doc(p).id, at |-> "record"])]
    /\ UNCHANGED <<cache, vault, mem, clock, moves, edits, proc, timers, handler>>

\* One step of the run_sync activation p.
PassStep(p) ==
    \/ PassLoad(p)
    \/ PassCompose(p)
    \/ PassUnlink(p)
    \/ PassWrite(p)
    \/ PassRecord(p)
    \/ PassSave(p)

\* ------------------------------------------------------------ environment
\* A document record with every field empty or absent.
BlankDoc ==
    [dict |-> TRUE, title |-> <<>>, notes_markdown |-> <<>>,
     created_at |-> Absent, createdAt |-> Absent,
     updated_at |-> Absent, updatedAt |-> Absent,
     deleted_at |-> FALSE,
     meta |-> <<>>,
     people |-> [dict |-> TRUE, attendees |-> <<>>],
     gcal |-> [dict |-> TRUE, attendees |-> <<>>]]

\* The source application rewrites the cache: document d gets a title, a
\* new text and the time of the write as its update timestamp, or none.
CacheEdit(d, title, stamped) ==
    /\ edits' = edits + 1
    /\ cache' = [exists |-> TRUE,
                 docs |-> Put(cache.docs, d,
                     [BlankDoc EXCEPT
                        !.title = title,
                        !.created_at = Number(CreatedAt),
                        !.updated_at = IF stamped THEN Number(edits + 1) ELSE Absent,
                        !.notes_markdown = <<"text " \o ToString(edits + 1)>>])]

\* The source application flags document d deleted.
CacheDelete(d) ==
    /\ d \in DOMAIN cache.docs
    /\ ~cache.docs[d].deleted_at
    /\ edits' = edits + 1
    /\ cache' = [cache EXCEPT !.docs[d].deleted_at = TRUE]

\* The user moves a note file to another directory of the vault.
UserMove(path, dir) ==
    /\ moves < MaxMoves
    /\ path \in DOMAIN vault
    /\ <<dir, path[2]>> \notin DOMAIN vault
    /\ moves' = moves + 1
    /\ vault' = Put(Drop(vault, path), <<dir, path[2]>>, vault[path])
    /\ hist' = [hist EXCEPT !.touched = TRUE]
    /\ UNCHANGED <<cache, disk, mem, pass, clock, faults, edits, proc, timers,
                   handler>>

\* The state file is damaged while no process runs: its permissions or its
\* bytes are changed from outside.
StateFileDamage(kind) ==
    /\ faults < MaxFaults
    /\ disk.kind # "absent"
    /\ faults' = faults + 1
    /\ disk' = [kind |-> kind, map |-> Empty]
    /\ hist' = [hist EXCEPT !.touched = TRUE]
    /\ UNCHANGED <<cache, vault, mem, pass, clock, moves, edits, proc, timers,
                   handler>>

\* ---------------------------------------------------------- cli, one-shot
NoActivePass == \A p \in PassIds : pass[p].pc \in {"idle", "done"}

\* cli.main line 58: SyncState() raised, the process ends with a traceback.
StartupFailure(dry) ==
    /\ proc' = [mode |-> "none", n |-> proc.n + 1, dry_run |-> dry]
    /\ hist' = [hist EXCEPT !.load_exc = load_exception(disk)]
    /\ UNCHANGED <<mem, pass>>

\* cli.main with --once: SyncState() loads the state file, run_sync starts.
\* The user writes a metadata line naming document d at the head of a note
\* that carries none (by hand, or with a template that holds one).
UserMark(path, d) ==
    /\ path \in DOMAIN vault
    /\ \A x \in DocIds : path \notin FindMatches(vault, x)
    /\ vault' = [vault EXCEPT ![path].text = <<needle(d)>> \o @]
    /\ hist' = [hist EXCEPT !.touched = TRUE]
    /\ UNCHANGED <<cache, disk, mem, pass, clock, faults, moves, edits, proc,
                   timers, handler>>

LaunchOnce(dry) ==
    /\ proc.mode = "none"
    /\ proc.n < MaxLaunch
    /\ IF load_exception(disk) # ""
       THEN StartupFailure(dry)
       ELSE /\ proc' = [mode |-> "once", n |-> proc.n + 1, dry_run |-> dry]
            /\ mem' = load(disk)
            /\ Enter(0, dry, load(disk))
    /\ UNCHANGED <<cache, vault, disk, clock, faults, moves, edits, timers, handler>>

\* cli.main with --once --force: SyncState() loads the state file, clear()
\* empties and saves it, run_sync starts.
LaunchForce ==
    /\ proc.mode = "none"
    /\ proc.n < MaxLaunch
    /\ IF load_exception(disk) # ""
       THEN StartupFailure(FALSE) /\ disk' = disk
       ELSE /\ proc' = [mode |-> "once", n |-> proc.n + 1, dry_run |-> FALSE]
            /\ mem' = clear(load(disk))
            /\ disk' = save(clear(load(disk)))
            /\ pass' = [pass EXCEPT ![0] = [IdlePass EXCEPT !.pc = "load"]]
            /\ hist' = [hist EXCEPT
                   !.run[0] = [IdleRun EXCEPT !.vault0 = vault,
                                              !.mem0 = clear(load(disk)),
                                              !.disk0 = save(clear(load(disk)))],
                   !.cleared = <<load(disk)>>]
    /\ UNCHANGED <<cache, vault, clock, faults, moves, edits, timers, handler>>

\* run_sync has returned (or raised): the one-shot process ends.
ExitOnce ==
    /\ proc.mode = "once"
    /\ pass[0].pc = "done"
    /\ proc' = [proc EXCEPT !.mode = "none"]
    /\ pass' = [pass EXCEPT ![0] = IdlePass]
    /\ mem' = Empty
    /\ hist' = [hist EXCEPT
           !.run[0] = IdleRun,
           !.complete = /\ ~pass[0].dry_run
                        /\ ~pass[0].raised
                        /\ hist.run[0].failed = <<>>
                        /\ hist.run[0].cache0.exists,
           !.touched = FALSE,
           !.cleared = <<>>]
    /\ UNCHANGED <<cache, vault, disk, clock, faults, moves, edits, timers, handler>>

\* The cache is written while no process runs, or while the watcher runs;
\* a running observer queues a modification event for the handler.
CacheWrite(limit) ==
    /\ edits < limit
    /\ \/ \E d \in DocIds, title \in Titles, stamped \in BOOLEAN :
              CacheEdit(d, title, stamped)
       \/ \E d \in DocIds : CacheDelete(d)
    /\ handler' = IF proc.mode = "watching"
                  THEN [handler EXCEPT !.queue = Append(@, "cache")]
                  ELSE handler
    /\ hist' = [hist EXCEPT !.touched = TRUE]
    /\ UNCHANGED <<vault, disk, mem, pass, clock, faults, moves, proc, timers>>

\* ----------------------------------------------------------------- watcher
\* watch(): the initial sync on the main thread.
WatchStart(dry) ==
    /\ proc.mode = "none"
    /\ proc.n < MaxLaunch
    /\ IF load_exception(disk) # ""
       THEN StartupFailure(dry)
       ELSE /\ proc' = [mode |-> "initial", n |-> proc.n + 1, dry_run |-> dry]
            /\ mem' = load(disk)
            /\ Enter(0, dry, load(disk))
    /\ UNCHANGED <<cache, vault, disk, clock, faults, moves, edits, timers, handler>>

\* watch() lines 70-84: the initial run_sync has returned, the handler is
\* made and the observer started.  An exception of the initial run_sync is
\* caught by nothing and ends the process.
ObserverStart ==
    /\ proc.mode = "initial"
    /\ pass[0].pc = "done"
    /\ proc' = [proc EXCEPT !.mode = IF pass[0].raised THEN "none" ELSE "watching"]
    /\ handler' = [timer |-> 0, queue |-> <<>>]
    /\ UNCHANGED <<cache, vault, disk, mem, pass, clock, faults, moves, edits,
                   timers, hist>>

no_cancel(ts, t) == ts

\* Timer.cancel(): only a timer still waiting is stopped.
cancel(ts, t) == IF ts[t] = "waiting" THEN [ts EXCEPT ![t] = "cancelled"] ELSE ts

\* _schedule_sync, under self._lock: cancel the pending timer, start a new one
schedule_sync_drop(ts, h) ==
    LET stopped == IF h.timer # 0 THEN cancel(ts, h.timer) ELSE ts
    IN  IF stopped # ts
        THEN [timers |-> stopped, timer |-> h.timer]
        ELSE [timers |-> Append(stopped, "waiting"), timer |-> Len(ts) + 1]

schedule_sync(ts, h) ==
    LET stopped == IF h.timer # 0 THEN cancel(ts, h.timer) ELSE ts
    IN  [timers |-> Append(stopped, "waiting"), timer |-> Len(ts) + 1]

\* on_modified: events of directories and of other files are dropped
reacts(event) == event = "cache"

\* The observer thread delivers the next event to on_modified.
OnModified ==
    /\ proc.mode = "watching"
    /\ handler.queue # <<>>
    /\ LET event == Head(handler.queue)
           s == schedule_sync(timers, handler)
       IN  IF reacts(event)
           THEN /\ timers' = s.timers
                /\ handler' = [timer |-> s.timer, queue |-> Tail(handler.queue)]
                /\ hist' = [hist EXCEPT !.bursts =
                       IF \E t \in DOMAIN timers : timers[t] = "waiting"
                       THEN @ ELSE @ + 1]
           ELSE /\ handler' = [handler EXCEPT !.queue = Tail(@)]
                /\ UNCHANGED <<timers, hist>>
    /\ UNCHANGED <<cache, vault, disk, mem, pass, clock, faults, moves, edits, proc>>

\* Another file of the cache directory is written: the observer, which
\* watches the directory, queues an event for it too.
OtherWrite ==
    /\ proc.mode = "watching"
    /\ edits < MaxEvents
    /\ edits' = edits + 1
    /\ handler' = [handler EXCEPT !.queue = Append(@, "other")]
    /\ UNCHANGED <<cache, vault, disk, mem, pass, clock, faults, moves, proc,
                   timers, hist>>

\* The debounce delay of timer t is over: its thread calls _do_sync, which
\* calls run_sync.
TimerFire(t) ==
    /\ proc.mode = "watching"
    /\ t \in DOMAIN timers
    /\ timers[t] = "waiting"
    /\ timers' = [timers EXCEPT ![t] = "fired"]
    /\ Enter(t, proc.dry_run, mem)
    /\ UNCHANGED <<cache, vault, disk, mem, clock, faults, moves, edits, proc, handler>>

\* ------------------------------------------------------------- wikilinks
\* A text is a sequence of tokens: a word, or one character or character
\* group that is no word (" ", "\n", "[", "]", "(", ")", "---",
\* "http://"; "{tick}" is one backtick).  "{long s}am" is the word Sam spelled with U+017F.
Words == {"Sam", "sam", "{long s}am", "Bob", "Ab"}

\* Config.min_wikilink_length
min_wikilink_length == 3

\* len() of a word
Chars(word) == IF word = "Ab" THEN 2 ELSE 3

\* str.lower(): U+017F has no lowercase mapping
lower(word) ==
    CASE word = "Sam" -> "sam"
      [] word = "Bob" -> "bob"
      [] word = "Ab" -> "ab"
      [] OTHER -> word

\* the letters re.IGNORECASE takes as equal: it matches U+017F with s and S
ignorecase(word) == IF word = "{long s}am" THEN "sam" ELSE lower(word)

\* \w at the first and at the last character of a token
StartsWord(token) == token \in Words \/ token = "http://"
EndsWord(token) == token \in Words

\* the least position from i on that holds one of the tokens, else 0
First(text, i, tokens) ==
    IF \E j \in i..Len(text) : text[j] \in tokens
    THEN CHOOSE j \in i..Len(text) :
            text[j] \in tokens /\ \A k \in i..(j - 1) : text[k] \notin tokens
    ELSE 0

Is(text, i, token) == i >= 1 /\ i <= Len(text) /\ text[i] = token

\* The end (exclusive) of the match of a protected-zone pattern that
\* starts at position i, or 0 when it does not match there.
\*   _FRONTMATTER_RE       \A---\n.*?\n---   (DOTALL)
\*   _FENCED_CODE_RE       ```.*?```          (DOTALL)
\*   _INLINE_CODE_RE       `[^`]+`
\*   _EXISTING_WIKILINK_RE \[\[[^\]]+\]\]
\*   _MARKDOWN_LINK_RE     \[([^\]]*)\]\([^)]+\)
\*   _BARE_URL_RE          https?://\S+
match_end(pattern, text, i) ==
    CASE pattern = "_FRONTMATTER_RE" ->
            IF i = 1 /\ Is(text, 1, "---") /\ Is(text, 2, "\n")
               /\ \E j \in 3..Len(text) : Is(text, j, "\n") /\ Is(text, j + 1, "---")
            THEN 2 + CHOOSE j \in 3..Len(text) :
                        /\ Is(text, j, "\n") /\ Is(text, j + 1, "---")
                        /\ \A k \in 3..(j - 1) :
                              ~(Is(text, k, "\n") /\ Is(text, k + 1, "---"))
            ELSE 0
      [] pattern = "_FENCED_CODE_RE" ->
            IF Is(text, i, "{tick}") /\ Is(text, i + 1, "{tick}") /\ Is(text, i + 2, "{tick}")
               /\ \E j \in (i + 3)..Len(text) :
                     Is(text, j, "{tick}") /\ Is(text, j + 1, "{tick}") /\ Is(text, j + 2, "{tick}")
            THEN 3 + CHOOSE j \in (i + 3)..Len(text) :
                        /\ Is(text, j, "{tick}") /\ Is(text, j + 1, "{tick}") /\ Is(text, j + 2, "{tick}")
                        /\ \A k \in (i + 3)..(j - 1) :
                              ~(Is(text, k, "{tick}") /\ Is(text, k + 1, "{tick}")
                                /\ Is(text, k + 2, "{tick}"))
            ELSE 0
      [] pattern = "_INLINE_CODE_RE" ->
            IF Is(text, i, "{tick}") /\ i + 1 <= Len(text) /\ text[i + 1] # "{tick}"
               /\ First(text, i + 1, {"{tick}"}) # 0
            THEN First(text, i + 1, {"{tick}"}) + 1
            ELSE 0
      [] pattern = "_EXISTING_WIKILINK_RE" ->
            LET j == First(text, i + 2, {"]"})
            IN  IF Is(text, i, "[") /\ Is(text, i + 1, "[")
                   /\ j >= i + 3 /\ Is(text, j + 1, "]")
                THEN j + 2 ELSE 0
      [] pattern = "_MARKDOWN_LINK_RE" ->
            LET j == First(text, i + 1, {"]"})
                k == IF j = 0 THEN 0 ELSE First(text, j + 2, {")"})
            IN  IF Is(text, i, "[") /\ j # 0 /\ Is(text, j + 1, "(") /\ k >= j + 3
                THEN k + 1 ELSE 0
      [] pattern = "_BARE_URL_RE" ->
            LET j == First(text, i + 1, {" ", "\n"})
            IN  IF Is(text, i, "http://") /\ i + 1 <= Len(text)
                   /\ text[i + 1] \notin {" ", "\n"}
                THEN IF j = 0 THEN Len(text) + 1 ELSE j
                ELSE 0

\* pattern.finditer(text): the matches from left to right, none overlapping
\* an earlier one; each as <<start, end>>, end exclusive
RECURSIVE finditer(_, _, _)
finditer(pattern, text, i) ==
    IF i > Len(text) THEN {}
    ELSE IF match_end(pattern, text, i) = 0 THEN finditer(pattern, text, i + 1)
    ELSE {<<i, match_end(pattern, text, i)>>}
         \cup finditer(pattern, text, match_end(pattern, text, i))

Patterns ==
    {"_FRONTMATTER_RE", "_FENCED_CODE_RE", "_INLINE_CODE_RE",
     "_EXISTING_WIKILINK_RE", "_MARKDOWN_LINK_RE", "_BARE_URL_RE"}

\* _build_protected_zones
build_protected_zones(text) ==
    UNION {finditer(pattern, text, 1) : pattern \in Patterns}

\* _in_protected_zone: the range pos..end overlaps a zone
in_protected_zone(pos, end, zones) ==
    \E z \in zones : pos < z[2] /\ end > z[1]

\* inject_wikilinks lines 96-100: the keys long enough
sorted_terms(terms) == {k \in DOMAIN terms : Chars(k) >= min_wikilink_length}

\* the pattern \b(alternatives)\b with re.IGNORECASE matches the token at i
pattern_matches(text, terms, i) ==
    /\ text[i] \in Words
    /\ \E k \in sorted_terms(terms) : ignorecase(terms[k]) = ignorecase(text[i])
    /\ i > 1 => ~EndsWord(text[i - 1])
    /\ i < Len(text) => ~StartsWord(text[i + 1])

\* terms.get(key, matched_text)
canonical(terms, key, matched_text) ==
    IF key \in DOMAIN terms THEN terms[key] ELSE matched_text

\* pattern.sub(replacer, text) from position i on, `linked` holding the
\* keys linked so far
RECURSIVE sub(_, _, _, _, _)
sub(text, terms, zones, i, linked) ==
    IF i > Len(text) THEN <<>>
    ELSE IF /\ pattern_matches(text, terms, i)
            /\ lower(text[i]) \notin linked
            /\ ~in_protected_zone(i, i + 1, zones)
         THEN <<"[", "[", canonical(terms, lower(text[i]), text[i]), "]", "]">>
              \o sub(text, terms, zones, i + 1, linked \cup {lower(text[i])})
         ELSE <<text[i]>> \o sub(text, terms, zones, i + 1, linked)

\* inject_wikilinks
inject_wikilinks(text, terms) ==
    IF DOMAIN terms = {} \/ sorted_terms(terms) = {} THEN text
    ELSE sub(text, terms, build_protected_zones(text), 1, {})

\* ---------------------------------------------------------- specifications
\* A fresh installation: no cache yet, an empty vault, no state file.
Init ==
    /\ cache = [exists |-> FALSE, docs |-> Empty]
    /\ vault = Empty
    /\ disk = AbsentFile
    /\ mem = Empty
    /\ pass = [p \in PassIds |-> IdlePass]
    /\ clock = ClockStart
    /\ faults = 0
    /\ moves = 0
    /\ edits = 0
    /\ proc = [mode |-> "none", n |-> 0, dry_run |-> FALSE]
    /\ timers = <<>>
    /\ handler = [timer |-> 0, queue |-> <<>>]
    /\ hist = [run |-> [p \in PassIds |-> IdleRun],
               complete |-> FALSE,
               touched |-> FALSE,
               bursts |-> 0,
               overlap |-> FALSE,
               load_exc |-> "",
               cleared |-> <<>>,
               decoded |-> <<>>,
               injected |-> <<>>,
               rendered |-> <<>>]

\* One-shot runs (`grimoiresync --once`), one after the other; between two
\* runs the source application writes the cache and the user moves notes.
Next ==
    \/ \E dry \in BOOLEAN : LaunchOnce(dry)
    \/ LaunchForce
    \/ PassStep(0)
    \/ ExitOnce
    \/ proc.mode = "none" /\ CacheWrite(MaxEdits)
    \/ proc.mode = "none" /\ \E path \in DOMAIN vault, dir \in Dirs : UserMove(path, dir)
    \/ proc.mode = "none" /\ \E kind \in {"unreadable", "undecodable", "scalar"} :
                                StateFileDamage(kind)

Spec == Init /\ [][Next]_vars

\* One-shot runs over a vault whose user moves notes and also marks them
\* with a document id, so that the vault-wide search finds them.
NextVault ==
    \/ \E dry \in BOOLEAN : LaunchOnce(dry)
    \/ PassStep(0)
    \/ ExitOnce
    \/ proc.mode = "none" /\ CacheWrite(MaxMarkedEdits)
    \/ proc.mode = "none" /\ \E path \in DOMAIN vault, dir \in Dirs : UserMove(path, dir)
    \/ proc.mode = "none" /\ \E path \in DOMAIN vault, d \in DocIds : UserMark(path, d)

SpecVault == Init /\ [][NextVault]_vars

\* A watch session: the initial pass, then the observer, the debounce
\* timers and the passes they start, each on its own thread, while the
\* source application keeps writing the cache.
NextWatch ==
    \/ \E dry \in BOOLEAN : WatchStart(dry)
    \/ ObserverStart
    \/ proc.mode = "watching" /\ CacheWrite(MaxEvents)
    \/ OtherWrite
    \/ OnModified
    \/ \E t \in PassIds \ {0} : TimerFire(t)
    \/ \E p \in PassIds : PassStep(p)

SpecWatch == Init /\ [][NextWatch]_vars

\* A step of one of the threads of the process: the observer thread delivers
\* a queued event to on_modified, a Timer thread that was not cancelled runs
\* _do_sync after the debounce delay, a running pass takes its next step.
ThreadStep ==
    \/ OnModified
    \/ \E t \in PassIds \ {0} : TimerFire(t)
    \/ \E p \in PassIds : PassStep(p)

\* The watch session of SpecWatch with the writes of one document under
\* two titles: neither the handler nor the timer looks at what a write left.
NextWatchLive ==
    \/ \E dry \in BOOLEAN : WatchStart(dry)
    \/ ObserverStart
    \/ /\ proc.mode = "watching"
       /\ CacheWrite(MaxEvents)
       /\ DOMAIN cache'.docs \subseteq {"d1"}
       /\ \A d \in DOMAIN cache'.docs : cache'.docs[d].title \in {<<"a">>, <<"b">>}
    \/ OtherWrite
    \/ ThreadStep

\* The watch session under its scheduling: the threads of a running process
\* are not suspended for ever, so while one of them can step, one does.
SpecWatchLive == Init /\ [][NextWatchLive]_vars /\ WF_vars(ThreadStep)

\* The decoder on its own: parse_cache is called, possibly at different
\* wall-clock times, on one cache drawn from the record shapes below.
TimeInputs ==
    {Absent, Number(0), Number(2), Number(2000), Number(MillisThreshold),
     Number(300), Number(2000000), Number(-100), Infinity, NaN,
     String("offset", 2), String("finite", 2), String("finite", 2000),
     String("finite", 2000000), String("inf", 0), String("nan", 0),
     String("text", 0), String("", 0), [type |-> "list", form |-> "", n |-> 0]}
    \cup {String(form, 2) : form \in IsoFormats}

Person(name) == [dict |-> TRUE, name |-> name, email |-> "", organizer |-> FALSE]
NoPerson == [dict |-> FALSE, name |-> "", email |-> "", organizer |-> FALSE]

MetaInputs == {<<>>, <<Person("M")>>, <<Person("M"), Person("N")>>}
PeopleInputs ==
    {[dict |-> FALSE, attendees |-> <<>>]}
    \cup {[dict |-> TRUE, attendees |-> list] :
            list \in {<<>>, <<Person("P")>>, <<NoPerson>>,
                      <<[Person("") EXCEPT !.email = "p@x", !.organizer = TRUE]>>}}
CalendarInputs ==
    {[dict |-> FALSE, attendees |-> <<>>]}
    \cup {[dict |-> TRUE, attendees |-> list] :
            list \in {<<>>, <<Person("G")>>, <<NoPerson>>}}

PlainDoc ==
    [BlankDoc EXCEPT !.title = <<"a">>,
                     !.created_at = Number(CreatedAt),
                     !.updated_at = Number(2)]

TimedDocs ==
    {[PlainDoc EXCEPT !.updated_at = v] : v \in TimeInputs}
    \cup {[PlainDoc EXCEPT !.created_at = v] : v \in TimeInputs}
    \cup {[PlainDoc EXCEPT !.updated_at = u, !.updatedAt = v] :
            u \in {Absent, Number(0), String("", 0)},
            v \in {Absent, Number(3)}}

AttendeeDocs ==
    {[PlainDoc EXCEPT !.meta = m, !.people = p, !.gcal = g] :
        m \in MetaInputs, p \in PeopleInputs, g \in CalendarInputs}

DeletedDocs ==
    {[doc EXCEPT !.deleted_at = TRUE] :
        doc \in {[PlainDoc EXCEPT !.updated_at = v] : v \in TimeInputs}
                \cup {[PlainDoc EXCEPT !.people = p] : p \in PeopleInputs}}

\* a record that is no JSON object (null, a string, a list)
NoDict == [PlainDoc EXCEPT !.dict = FALSE]

RawDocs == TimedDocs \cup AttendeeDocs \cup DeletedDocs \cup {NoDict}

InitDecode ==
    /\ \E ids \in SUBSET DocIds : \E docs \in [ids -> RawDocs] :
          cache = [exists |-> TRUE, docs |-> docs]
    /\ vault = Empty
    /\ disk = AbsentFile
    /\ mem = Empty
    /\ pass = [p \in PassIds |-> IdlePass]
    /\ clock = ClockStart
    /\ faults = 0
    /\ moves = 0
    /\ edits = 0
    /\ proc = [mode |-> "none", n |-> 0, dry_run |-> FALSE]
    /\ timers = <<>>
    /\ handler = [timer |-> 0, queue |-> <<>>]
    /\ hist = [run |-> [p \in PassIds |-> IdleRun],
               complete |-> FALSE,
               touched |-> FALSE,
               bursts |-> 0,
               overlap |-> FALSE,
               load_exc |-> "",
               cleared |-> <<>>,
               decoded |-> <<>>,
               injected |-> <<>>,
               rendered |-> <<>>]

\* One call parse_cache(cache_path) at the present wall-clock time; the
\* clock may have advanced by the next call.
Decode(tick) ==
    /\ Len(hist.decoded) < MaxDecodes
    /\ hist' = [hist EXCEPT !.decoded =
                    Append(@, [now |-> clock, result |-> parse_cache(cache, clock)])]
    /\ clock' = clock + tick
    /\ UNCHANGED <<cache, vault, disk, mem, pass, faults, moves, edits, proc,
                   timers, handler>>

NextDecode == \E tick \in 0..1 : Decode(tick)

SpecDecode == InitDecode /\ [][NextDecode]_vars

\* The wikilink engine on its own: inject_wikilinks is called once on a
\* text put together from the pieces below and a term map as
\* scan_vault_terms gives it (lowercase key -> canonical form).
Segments ==
    {<<w>> : w \in Words}
    \cup {<<" ">>, <<"[">>, <<"]">>, <<"{tick}">>,
          <<"http://">>, <<"[", "[">>, <<"]", "]">>,
          <<"[", "[", "Sam", "]", "]">>,
          <<"[", "[", "Bob", " ", "sam", "]", "]">>,
          <<"{tick}", "Sam", "{tick}">>,
          <<"{tick}", "{tick}", "{tick}", "\n", "Sam", "\n", "{tick}", "{tick}", "{tick}">>,
          <<"---", "\n", "Sam", "\n", "---", "\n">>,
          <<"[", "Sam", "]", "(", "Bob", ")">>,
          <<"[", "Bob", " ", "[", "Ab", "]", " ", "Sam", "]", "(", "http://", "Bob", ")">>,
          <<"http://", "Sam">>}

RECURSIVE Joined(_)
Joined(n) ==
    IF n = 0 THEN {<<>>}
    ELSE Joined(n - 1) \cup {t \o seg : t \in Joined(n - 1), seg \in Segments}

Texts == Joined(MaxSegments)

TermMaps ==
    {Empty,
     [k \in {"sam"} |-> "Sam"],
     [k \in {"sam", "bob", "ab"} |->
        CASE k = "sam" -> "Sam" [] k = "bob" -> "Bob" [] OTHER -> "Ab"]}

\* One call inject_wikilinks(text, terms, min_length).
Inject(text, terms) ==
    /\ hist.injected = <<>>
    /\ hist' = [hist EXCEPT !.injected =
                    <<[text |-> text, terms |-> terms,
                       result |-> inject_wikilinks(text, terms)]>>]
    /\ UNCHANGED <<cache, vault, disk, mem, pass, clock, faults, moves, edits,
                   proc, timers, handler>>

NextInject == \E text \in Texts, terms \in TermMaps : Inject(text, terms)

SpecInject == Init /\ [][NextInject]_vars

\* ------------------------------------------------------------- prosemirror
\* A JSON value: null, an integer, a float, a string (a sequence of tokens),
\* a list, or an object (a function from its keys to JSON values).
JNull == [json |-> "null", n |-> 0, s |-> <<>>, items |-> <<>>, fields |-> Empty]
JInt(n) == [JNull EXCEPT !.json = "int", !.n = n]
JFloat(n) == [JNull EXCEPT !.json = "float", !.n = n]
JStr(s) == [JNull EXCEPT !.json = "str", !.s = s]
JList(items) == [JNull EXCEPT !.json = "list", !.items = items]
JDict(fields) == [JNull EXCEPT !.json = "dict", !.fields = fields]

\* `if value:`
truthy(v) ==
    CASE v.json = "null" -> FALSE
      [] v.json \in {"int", "float"} -> v.n # 0
      [] v.json = "str" -> v.s # <<>>
      [] v.json = "list" -> v.items # <<>>
      [] v.json = "dict" -> DOMAIN v.fields # {}

\* `for x in value`: the items of a list, the characters of a string, the
\* keys of an object (one of them: a key is a string, and the loop body
\* raises on the first); TypeError for null and numbers.
iter(v) ==
    CASE v.json = "list" -> Returns(v.items)
      [] v.json = "str" -> Returns([i \in 1..Len(v.s) |-> JStr(<<v.s[i]>>)])
      [] v.json = "dict" ->
            Returns(IF DOMAIN v.fields = {} THEN <<>>
                    ELSE <<JStr(<<CHOOSE k \in DOMAIN v.fields : TRUE>>)>>)
      [] OTHER -> Raises("TypeError")

\* `value.get(key, default)`: AttributeError unless value is an object
get(v, key, default) ==
    IF v.json # "dict" THEN Raises("AttributeError")
    ELSE Returns(IF key \in DOMAIN v.fields THEN v.fields[key] ELSE default)

\* `f"{value}"`
format(v) ==
    CASE v.json = "str" -> v.s
      [] v.json = "null" -> <<"None">>
      [] v.json = "int" -> <<ToString(v.n)>>
      [] v.json = "float" -> <<ToString(v.n) \o ".0">>
      [] OTHER -> <<"{repr}">>

\* `"".join(parts)`: TypeError unless every part is a string
RECURSIVE concat(_)
concat(parts) ==
    IF parts = <<>> THEN <<>> ELSE Head(parts).s \o concat(Tail(parts))

join(parts) ==
    IF \E i \in 1..Len(parts) : parts[i].json # "str"
    THEN Raises("TypeError")
    ELSE Returns(JStr(concat(parts)))

\* `"#" * level`: TypeError unless level is an integer
RECURSIVE repeat(_, _)
repeat(token, n) == IF n <= 0 THEN <<>> ELSE <<token>> \o repeat(token, n - 1)

times(token, level) ==
    IF level.json = "int" THEN Returns(repeat(token, level.n))
    ELSE Raises("TypeError")

\* str.strip() of the rendered text
MarkdownSpace == {" ", "\n"}

RECURSIVE md_strip(_)
md_strip(s) ==
    IF s # <<>> /\ Head(s) \in MarkdownSpace THEN md_strip(Tail(s))
    ELSE IF s # <<>> /\ s[Len(s)] \in MarkdownSpace
         THEN md_strip(SubSeq(s, 1, Len(s) - 1))
         ELSE s

\* text.split("\n") with `first` put before the first line and `rest`
\* before every other line, joined by "\n" again
RECURSIVE next_lines(_, _)
next_lines(s, rest) ==
    IF s = <<>> THEN <<>>
    ELSE IF Head(s) = "\n" THEN <<"\n">> \o rest \o next_lines(Tail(s), rest)
    ELSE <<Head(s)>> \o next_lines(Tail(s), rest)

prefix_lines(s, first, rest) == first \o next_lines(s, rest)

\* _render_text, one pass of the loop over the marks: the text after the
\* mark has formatted it (a string then), or the exception
apply_mark(text, mark) ==
    LET mark_type == get(mark, "type", JStr(<<>>))
        IsMark(name) == mark_type.val = JStr(<<name>>)
        attrs == get(mark, "attrs", JDict(Empty))
        href == get(attrs.val, "href", JStr(<<>>))
        Wrap(l, r) == Returns(JStr(l \o format(text) \o r))
    IN  IF mark_type.exc # "" THEN mark_type
        ELSE IF IsMark("bold") \/ IsMark("strong") THEN Wrap(<<"**">>, <<"**">>)
        ELSE IF IsMark("italic") \/ IsMark("em") THEN Wrap(<<"*">>, <<"*">>)
        ELSE IF IsMark("code") THEN Wrap(<<"{tick}">>, <<"{tick}">>)
        ELSE IF IsMark("strike") \/ IsMark("strikethrough")
             THEN Wrap(<<"~~">>, <<"~~">>)
        ELSE IF IsMark("link")
             THEN IF attrs.exc # "" THEN attrs
                  ELSE IF href.exc # "" THEN href
                  ELSE Wrap(<<"[">>, <<"]", "(">> \o format(href.val) \o <<")">>)
        ELSE Returns(text)

\* _render_text, the loop over the marks from mark i on
RECURSIVE render_marks(_, _, _)
render_marks(text, marks, i) ==
    IF i > Len(marks) THEN Returns(text)
    ELSE LET marked == apply_mark(text, marks[i])
         IN  IF marked.exc # "" THEN marked
             ELSE render_marks(marked.val, marks, i + 1)

render_text(node) ==
    LET text == get(node, "text", JStr(<<>>))
        marks == get(node, "marks", JList(<<>>))
        it == iter(marks.val)
    IN  IF text.exc # "" THEN text
        ELSE IF it.exc # "" THEN it
        ELSE render_marks(text.val, it.val, 1)

\* parts.append(part) in a loop whose later passes give rest: the parts,
\* or the first exception
append(part, rest) ==
    IF part.exc # "" THEN part
    ELSE IF rest.exc # "" THEN rest
    ELSE Returns(<<part.val>> \o rest.val)

\* `return "".join(parts)` after the loop
joined(parts) == IF parts.exc # "" THEN parts ELSE join(parts.val)

RECURSIVE render_nodes(_)
RECURSIVE render_node(_)
RECURSIVE render_inline(_)
RECURSIVE render_list(_, _)
RECURSIVE nodes_parts(_, _)
RECURSIVE inline_parts(_, _)
RECURSIVE list_lines(_, _, _)

\* _render_inline, one pass of the loop
inline_part(node) ==
    LET node_type == get(node, "type", JStr(<<>>))
        content == get(node, "content", JList(<<>>))
    IN  IF node_type.exc # "" THEN node_type
        ELSE IF node_type.val = JStr(<<"text">>) THEN render_text(node)
        ELSE IF node_type.val = JStr(<<"hardBreak">>) THEN Returns(JStr(<<"\n">>))
        ELSE IF truthy(content.val) THEN render_inline(content.val)
        ELSE Returns(JStr(<<>>))

\* _render_inline, the loop from node i on: the parts, or the exception
inline_parts(nodes, i) ==
    IF i > Len(nodes) THEN Returns(<<>>)
    ELSE append(inline_part(nodes[i]), inline_parts(nodes, i + 1))

render_inline(nodes) ==
    LET it == iter(nodes)
    IN  IF it.exc # "" THEN it ELSE joined(inline_parts(it.val, 1))

\* _render_nodes, the loop from node i on
nodes_parts(nodes, i) ==
    IF i > Len(nodes) THEN Returns(<<>>)
    ELSE append(render_node(nodes[i]), nodes_parts(nodes, i + 1))

render_nodes(nodes) ==
    LET it == iter(nodes)
    IN  IF it.exc # "" THEN it ELSE joined(nodes_parts(it.val, 1))

\* _render_list, `text = _render_nodes(content).strip()` of one item
item_text(item) ==
    LET content == get(item, "content", JList(<<>>))
    IN  IF content.exc # "" THEN content ELSE render_nodes(content.val)

\* _render_list, the lines of item i, and those of the later items (rest)
\* after a "\n"
item_lines(text, rest, ordered, i, last) ==
    LET prefix == IF ordered THEN <<ToString(i), ".", " ">> ELSE <<"-", " ">>
        indent == repeat(" ", Len(prefix))
    IN  IF text.exc # "" THEN text
        ELSE IF rest.exc # "" THEN rest
        ELSE Returns(prefix_lines(md_strip(text.val.s), prefix, indent)
                     \o (IF last THEN <<>> ELSE <<"\n">>) \o rest.val)

\* _render_list, the loop from item i on: the lines, joined by "\n"
list_lines(items, ordered, i) ==
    IF i > Len(items) THEN Returns(<<>>)
    ELSE item_lines(item_text(items[i]), list_lines(items, ordered, i + 1),
                    ordered, i, i = Len(items))

\* `return "\n".join(lines) + "\n\n"`
list_markdown(lines) ==
    IF lines.exc # "" THEN lines ELSE Returns(JStr(lines.val \o <<"\n", "\n">>))

render_list(items, ordered) ==
    LET it == iter(items)
    IN  IF it.exc # "" THEN it ELSE list_markdown(list_lines(it.val, ordered, 1))

\* _render_node, the call its case makes for the children (or for the text):
\* _render_inline, _render_list, _render_text, none, or _render_nodes (for an
\* unknown type only if the content is true)
render_children(node, node_type) ==
    LET content == get(node, "content", JList(<<>>)).val
        InlineTypes == {JStr(<<"paragraph">>), JStr(<<"heading">>),
                        JStr(<<"listItem">>), JStr(<<"codeBlock">>)}
        ListTypes == {JStr(<<"bulletList">>), JStr(<<"orderedList">>)}
        NodesTypes == {JStr(<<"doc">>), JStr(<<"blockquote">>)}
        LeafTypes == {JStr(<<"horizontalRule">>), JStr(<<"hardBreak">>)}
    IN  IF node_type \in InlineTypes THEN render_inline(content)
        ELSE IF node_type \in ListTypes
             THEN render_list(content, node_type = JStr(<<"orderedList">>))
        ELSE IF node_type = JStr(<<"text">>) THEN render_text(node)
        ELSE IF node_type \in LeafTypes THEN Returns(JStr(<<>>))
        ELSE IF node_type \in NodesTypes \/ truthy(content) THEN render_nodes(content)
        ELSE Returns(JStr(<<>>))

\* _render_node, the case of the node type, around what the children gave:
\* a heading reads the level, renders the children, then multiplies; a code
\* block reads the language, then renders the children
node_markdown(node, node_type, children) ==
    LET attrs == get(node, "attrs", JDict(Empty)).val
        IsType(name) == node_type = JStr(<<name>>)
        level == get(attrs, "level", JInt(1))
        prefix == times("#", level.val)
        lang == get(attrs, "language", JStr(<<>>))
    IN  IF IsType("heading") /\ level.exc # "" THEN level
        ELSE IF IsType("codeBlock") /\ lang.exc # "" THEN lang
        ELSE IF IsType("horizontalRule") THEN Returns(JStr(<<"---", "\n", "\n">>))
        ELSE IF IsType("hardBreak") THEN Returns(JStr(<<"\n">>))
        ELSE IF children.exc # "" THEN children
        ELSE IF IsType("paragraph")
             THEN Returns(JStr(children.val.s \o <<"\n", "\n">>))
        ELSE IF IsType("heading")
             THEN IF prefix.exc # "" THEN prefix
                  ELSE Returns(JStr(prefix.val \o <<" ">> \o children.val.s
                                               \o <<"\n", "\n">>))
        ELSE IF IsType("blockquote")
             THEN Returns(JStr(prefix_lines(md_strip(children.val.s),
                                            <<">", " ">>, <<">", " ">>)
                               \o <<"\n", "\n">>))
        ELSE IF IsType("codeBlock")
             THEN Returns(JStr(<<"{tick}{tick}{tick}">> \o format(lang.val)
                               \o <<"\n">> \o children.val.s
                               \o <<"\n", "{tick}{tick}{tick}", "\n", "\n">>))
        ELSE children

render_node(node) ==
    LET node_type == get(node, "type", JStr(<<>>))
    IN  IF node_type.exc # "" THEN node_type
        ELSE node_markdown(node, node_type.val,
                           render_children(node, node_type.val))

\* `.strip()` of what _render_nodes returned
stripped(text) == IF text.exc # "" THEN text ELSE Returns(md_strip(text.val.s))

\* the markdown of a tree, or the exception the call raises
prosemirror_to_markdown(doc) ==
    IF ~truthy(doc) \/ doc.json # "dict" THEN Returns(<<>>)
    ELSE stripped(render_nodes(get(doc, "content", JList(<<>>)).val))

\* The trees handed to prosemirror_to_markdown: what json.loads can return,
\* well-formed nodes and malformed ones.
Trees ==
    LET
        Extend(S, key, V) == S \cup {Put(f, key, v) : f \in S, v \in V}

        Typed(name) == [type |-> JStr(<<name>>)]

        MarkInputs ==
            {JDict(Typed("bold")), JDict(Typed("link")), JDict(Empty), JStr(<<"bold">>),
             JDict([type |-> JStr(<<"link">>), attrs |-> JNull]),
             JDict([type |-> JStr(<<"link">>), attrs |-> JDict([href |-> JStr(<<"u">>)])])}

        MarksInputs ==
            {JNull, JList(<<>>), JList(<<JDict(Typed("em")), JDict(Typed("code"))>>)}
            \cup {JList(<<m>>) : m \in MarkInputs}

        TextInputs == {JStr(<<"t">>), JInt(5), JNull}

        TextNodes ==
            {JDict(f) : f \in Extend(Extend({Typed("text")}, "text", TextInputs),
                                     "marks", MarksInputs)}

        PlainText == JDict([type |-> JStr(<<"text">>), text |-> JStr(<<"t">>)])

        HardBreak == JDict(Typed("hardBreak"))

        SmallInline == {JNull, JStr(<<"a", "b">>), JList(<<PlainText>>)}

        InlineInputs ==
            SmallInline
            \cup {JInt(5), JStr(<<>>), JList(<<>>), JList(<<JNull>>), JList(<<JStr(<<"t">>)>>),
                  JList(<<PlainText, HardBreak, PlainText>>),
                  JList(<<JDict([type |-> JStr(<<"span">>),
                                 content |-> JList(<<PlainText>>)])>>)}
            \cup {JList(<<n>>) : n \in TextNodes}

        AttrInputs ==
            {JNull, JDict(Empty), JDict([level |-> JInt(2)]), JDict([level |-> JInt(0)]),
             JDict([level |-> JStr(<<"2">>)]), JDict([level |-> JNull]),
             JDict([level |-> JFloat(2)]), JDict([language |-> JStr(<<"py">>)]),
             JDict([language |-> JNull])}

        Paragraph(content) == JDict([type |-> JStr(<<"paragraph">>), content |-> content])

        ListItem(content) == JDict([type |-> JStr(<<"listItem">>), content |-> content])

        ItemInputs ==
            {JNull, JList(<<>>), JList(<<JNull>>), JList(<<JDict(Empty)>>),
             JList(<<ListItem(JNull)>>),
             JList(<<ListItem(JList(<<Paragraph(JList(<<PlainText>>))>>))>>),
             JList(<<ListItem(JList(<<Paragraph(JList(<<PlainText>>))>>)),
                     ListItem(JList(<<Paragraph(JList(<<PlainText>>)),
                                      Paragraph(JList(<<PlainText>>))>>))>>)}

        QuoteInputs ==
            {JNull, JList(<<Paragraph(JList(<<PlainText>>))>>),
             JList(<<Paragraph(JList(<<PlainText>>)), Paragraph(JList(<<PlainText>>))>>)}

        Blocks ==
            {JDict(f) : f \in
                Extend({Typed("paragraph")}, "content", InlineInputs)
                \cup Extend(Extend({Typed("heading"), Typed("codeBlock")},
                                   "attrs", AttrInputs), "content", SmallInline)
                \cup Extend({Typed("bulletList"), Typed("orderedList")}, "content", ItemInputs)
                \cup Extend({Typed("blockquote"), Typed("doc")}, "content", QuoteInputs)
                \cup Extend({Typed("listItem"), Typed("table"), Empty, [type |-> JNull]},
                            "content", SmallInline)
                \cup {Typed("horizontalRule")}}
            \cup {HardBreak} \cup TextNodes

        ContentInputs ==
            {JNull, JInt(0), JStr(<<"a">>), JDict([a |-> JNull]), JList(<<>>),
             JList(<<JNull>>), JList(<<JStr(<<"a">>)>>),
             JList(<<Paragraph(JList(<<PlainText>>)), JDict(Typed("horizontalRule")),
                     Paragraph(JList(<<PlainText>>))>>)}
            \cup {JList(<<b>>) : b \in Blocks}
    IN
        {JNull, JStr(<<"s">>), JList(<<>>), JDict(Empty)}
        \cup {JDict(f) : f \in Extend({Typed("doc"), [x \in {"version"} |-> JInt(1)]},
                                      "content", ContentInputs)}

\* One call prosemirror_to_markdown(doc.notes_prosemirror).
Render(doc) ==
    /\ hist.rendered = <<>>
    /\ hist' = [hist EXCEPT !.rendered =
                    <<[doc |-> doc, result |-> prosemirror_to_markdown(doc)]>>]
    /\ UNCHANGED <<cache, vault, disk, mem, pass, clock, faults, moves, edits,
                   proc, timers, handler>>

NextRender == \E doc \in Trees : Render(doc)

SpecRender == Init /\ [][NextRender]_vars

\* ------------------------------------------------------------- properties
EntryOf(st, d) == IF d \in DOMAIN st THEN <<st[d]>> ELSE <<>>

\* The step in which record_sync and its save went through for the
\* document pass p is at.
Recorded(p) ==
    /\ pass[p].pc = "save"
    /\ pass'[p].written = pass[p].written + 1

\* A one-shot pass has ended; the run before it was a complete non-dry pass
\* (hist.complete), and neither the cache nor the vault nor the sync state
\* was touched between the two (no clear() either).
SecondPass ==
    /\ proc.mode = "once"
    /\ pass[0].pc = "done"
    /\ ~pass[0].raised
    /\ hist.complete
    /\ ~hist.touched
    /\ hist.cleared = <<>>

NothingDone(p) ==
    /\ pass[p].ret = 0
    /\ hist.run[p].writes = 0
    /\ hist.run[p].records = 0
    /\ hist.run[p].unlinks = 0

\* Every live document of the cache c carries an update timestamp.
AllStamped(c) ==
    \A d \in DOMAIN c.docs :
        c.docs[d].deleted_at \/ Or(c.docs[d].updated_at, c.docs[d].updatedAt) # Absent

\* C1 as stated: for any cache contents, a pass that follows a complete
\* non-dry pass over the same cache and vault returns 0, writes no file and
\* calls record_sync for no document.
C1_SecondPassIdle == SecondPass => NothingDone(0)

\* C1, amended: the same, for a cache whose live documents all carry an
\* update timestamp (a document without one is stamped with the time of each
\* parse, so it is a candidate of every pass).
C1_SecondPassIdleStamped ==
    SecondPass /\ AllStamped(hist.run[0].cache0) => NothingDone(0)

C1_Witness ==
    /\ SecondPass
    /\ AllStamped(hist.run[0].cache0)
    /\ hist.run[0].documents # <<>>
    /\ hist.run[0].mem0 # Empty
    /\ vault # Empty

\* The document pass p is at was synced before, the file at its stored path
\* exists and bears another name than make_filename now gives.
Renamed(p) ==
    /\ ~pass[p].dry_run
    /\ hist.run[p].old_exists
    /\ hist.run[p].old_abs[2] # pass[p].new_filename

\* The rename has been carried out: the old file is gone, the new file is in
\* the old file's directory, the state holds its vault-relative path.
RenameDone(p) ==
    LET old == hist.run[p].old_abs
        new == <<old[1], pass[p].new_filename>>
    IN  /\ old \notin DOMAIN vault'
        /\ new \in DOMAIN vault'
        /\ vault'[new].text = pass[p].content
        /\ EntryOf(mem', Doc(p).id) # <<>>
        /\ mem'[Doc(p).id].filename = relative_to(new)

MovedNotes(p) ==
    {path \in DOMAIN vault :
        /\ vault[path].doc = Doc(p).id
        /\ path[2] = hist.run[p].old_abs[2]
        /\ path[1] # hist.run[p].old_abs[1]}

\* Pass p has resolved the target of a document whose note is neither at
\* the expected nor at the recorded path, but was moved elsewhere.
MovedCase(p) ==
    /\ pass[p].pc \in {"unlink", "write"}
    /\ ~pass[p].dry_run
    /\ hist.run[p].old_abs # <<>>
    /\ ~hist.run[p].old_exists
    /\ ~hist.run[p].expected_exists
    /\ MovedNotes(p) # {}

\* C3: when the user has moved a synced note to another directory, so that
\* no file is at the expected or the recorded path, the pass writes the note
\* into the directory that holds the moved file, not into notes_dir.
C3_MovedNoteFollowed ==
    \A p \in PassIds :
        MovedCase(p) => pass[p].target_dir \in {path[1] : path \in MovedNotes(p)}

\* C4: the note assemble_note composed and write_note wrote is located by
\* find_note_by_granola_id(vault, doc.id): the search returns its path.
C4_MarkerRoundTrip ==
    \A p \in PassIds :
        pass[p].pc = "record" /\ hist.run[p].writes > 0
            => find_note_by_granola_id(vault, Doc(p).id) = {pass[p].filepath}

\* A dry-run one-shot pass has ended.
DryDone == proc.mode = "once" /\ pass[0].pc = "done" /\ pass[0].dry_run

\* C5: a dry-run pass creates, overwrites and deletes no file, changes
\* neither the state in memory nor the state file, and returns the number of
\* documents it would have written (the candidates it composed).
C5_DryRunChangesNothing ==
    DryDone =>
        /\ vault = hist.run[0].vault0
        /\ mem = hist.run[0].mem0
        /\ disk = hist.run[0].disk0
        /\ ~pass[0].raised =>
               pass[0].ret = Len(pass[0].to_sync) - Len(hist.run[0].failed)

\* a dry run that met a renamed document, whose old file a real run removes
C5_Witness ==
    /\ DryDone
    /\ pass[0].ret > 0
    /\ hist.run[0].old_exists
    /\ hist.run[0].old_abs[2] # pass[0].new_filename
    /\ ~hist.run[0].expected_exists

\* The step is taken by record_sync for document d in a pass that is not a
\* dry run, after write_note wrote the note of d.
RecordStepFor(d) ==
    \E p \in PassIds :
        /\ pass[p].pc = "record"
        /\ ~pass[p].dry_run
        /\ Doc(p).id = d
        /\ pass[p].filepath \in DOMAIN vault
        /\ vault[pass[p].filepath].text = pass[p].content

\* The documents that raised in pass p before record_sync was reached.
FailedBeforeRecord(p) ==
    {hist.run[p].failed[k].id : k \in
        {j \in 1..Len(hist.run[p].failed) : hist.run[p].failed[j].at # "record"}}

\* C6: within a process, the entry of a document is created or changed only
\* by record_sync in a non-dry pass after write_note wrote the document's
\* note; a document that raised in compose, target resolution or write has
\* the entry (or none) it had when the pass began.
C6_EntryOnlyAfterWrite ==
    /\ [][\A d \in DocIds :
            EntryOf(mem', d) # EntryOf(mem, d) /\ proc'.mode = proc.mode
                => RecordStepFor(d)]_vars
    /\ [](proc.mode = "once" =>
            \A d \in FailedBeforeRecord(0) :
                EntryOf(mem, d) = EntryOf(hist.run[0].mem0, d))

\* one document of the pass was recorded, another raised before its record
C6_Witness ==
    /\ proc.mode = "once"
    /\ pass[0].pc = "done"
    /\ hist.run[0].records > 0
    /\ mem # hist.run[0].mem0
    /\ FailedBeforeRecord(0) # {}

\* C7: an exception while one candidate is processed does not stop the
\* pass: the loop reaches the last candidate, and the count returned is the
\* number of candidates processed without an exception.
C7_ExceptionContained ==
    \A p \in PassIds :
        pass[p].pc = "done" /\ ~pass[p].raised /\ pass[p].to_sync # <<>>
            => /\ pass[p].i = Len(pass[p].to_sync)
               /\ pass[p].ret = Len(pass[p].to_sync) - Len(hist.run[p].failed)

\* the first of two candidates raised, the second was written
C7_Witness ==
    /\ pass[0].pc = "done"
    /\ Len(pass[0].to_sync) = 2
    /\ Len(hist.run[0].failed) = 1
    /\ hist.run[0].failed[1].id = pass[0].to_sync[1].id
    /\ pass[0].ret = 1

\* ---------------------------------------------------- properties, watcher
Waiting == {t \in DOMAIN timers : timers[t] = "waiting"}

Fired == {t \in DOMAIN timers : timers[t] = "fired"}

ActivePasses == {p \in PassIds : pass[p].pc \notin {"idle", "done"}}

\* C8: a burst of modification events, each handled while the timer of the
\* one before is still waiting, gives one run_sync: at most one timer waits
\* at any time, and the timers that fired or still wait are as many as the
\* bursts (hist.bursts counts the events that met no waiting timer).
C8_BurstOnePass ==
    /\ Cardinality(Waiting) <= 1
    /\ Cardinality(Waiting) + Cardinality(Fired) = hist.bursts

\* two events in one burst: the first timer cancelled, the second fired
C8_Witness ==
    /\ Len(timers) = 2
    /\ timers[1] = "cancelled"
    /\ timers[2] = "fired"
    /\ hist.bursts = 1

\* C9: in watch mode no two run_sync executions overlap.
C9_OnePassAtATime == Cardinality(ActivePasses) <= 1

\* The watcher is at rest: no event to deliver, no timer waiting, no pass
\* running.
Quiescent ==
    /\ proc.mode = "watching"
    /\ handler.queue = <<>>
    /\ Waiting = {}
    /\ ActivePasses = {}

\* No pass met a failure.
NoFailure ==
    /\ faults = 0
    /\ \A p \in PassIds : ~pass[p].raised /\ hist.run[p].failed = <<>>

\* What a non-dry pass over the cache leaves for a stamped document: the
\* state holds its update timestamp, and the file at the recorded path, when
\* it is there and is this document's note, has the text composed from it.
\* (Another document of the same filename may have replaced or removed the
\* file within one pass; that case is left out on both sides.)
UpToDate(doc) ==
    /\ ~needs_sync(mem, doc.id, doc.updated_at)
    /\ LET path == old_abs_of(get_previous_filename(mem, doc.id))
       IN  (path \in DOMAIN vault /\ vault[path].doc = doc.id)
           => vault[path].text = assemble_note(doc)

Stamped(c) ==
    {doc \in Range(parse_cache(c, clock).val) :
        Or(c.docs[doc.id].updated_at, c.docs[doc.id].updatedAt) # Absent}

\* C10: when passes have overlapped, the outcome is that of one pass over
\* the latest cache: once the watcher is at rest, and a pass has read the
\* cache as it now is, no state entry and no note is stale.
C10_OverlapHarmless ==
    /\ Quiescent
    /\ hist.overlap
    /\ ~proc.dry_run
    /\ NoFailure
    /\ \E p \in PassIds : pass[p].pc = "done" /\ hist.run[p].cache0 = cache
    => \A doc \in Stamped(cache) : UpToDate(doc)

\* The same outcome, of one-shot passes, which never overlap (the baseline
\* C10 compares with).
SinglePassUpToDate ==
    /\ proc.mode = "once"
    /\ pass[0].pc = "done"
    /\ ~pass[0].dry_run
    /\ ~pass[0].raised
    /\ hist.run[0].failed = <<>>
    /\ cache.exists
    /\ moves = 0
    => \A doc \in Stamped(cache) : UpToDate(doc)

\* C11: in watch mode a pass that raises does not stop the watcher: after
\* any pass of the session has raised, the watcher is still starting or
\* watching.
C11_WatcherSurvivesFailure ==
    \A p \in PassIds :
        pass[p].pc = "done" /\ pass[p].raised
            => proc.mode \in {"initial", "watching"}

\* The part of C11 the code keeps: a pass started by a timer that raises
\* leaves the watcher watching (_do_sync catches the exception).
TimerPassFailureContained ==
    \A p \in PassIds \ {0} :
        pass[p].pc = "done" /\ pass[p].raised => proc.mode = "watching"

\* A one-shot process has loaded a state file that is not a JSON object and
\* its pass has read the cache.
LoadedFromBadFile ==
    /\ proc.mode = "once"
    /\ pass[0].pc \notin {"idle", "load"}
    /\ ~pass[0].raised
    /\ hist.run[0].disk0.kind # "json"

\* The pass treats every document as needing sync.
EverythingNeedsSync(p) ==
    hist.run[p].documents = <<>> \/ pass[p].to_sync = hist.run[p].documents

\* C12: loading the state from a file that is absent, unreadable or holds
\* malformed content never raises and yields an empty map, and the pass
\* that follows treats every document as needing sync.
C12_LoadTolerant ==
    /\ hist.load_exc = ""
    /\ LoadedFromBadFile => hist.run[0].mem0 = Empty /\ EverythingNeedsSync(0)

\* The part of C12 the code keeps: an absent file, a file that cannot be
\* read (OSError) and a file that holds invalid JSON load as the empty map.
LoadTolerantOfCaughtErrors ==
    /\ hist.load_exc # "" => disk.kind \in {"undecodable", "scalar"}
    /\ LoadedFromBadFile => hist.run[0].mem0 = Empty /\ EverythingNeedsSync(0)

\* The update timestamps a caller can ask needs_sync about.
AskedTimes == 0..(MaxEdits + 1)

\* A SyncState loaded from the file d answers as the map st does.
SameAnswers(d, st) ==
    /\ load_exception(d) = ""
    /\ \A id \in DocIds :
        /\ get_previous_filename(load(d), id) = get_previous_filename(st, id)
        /\ \A t \in AskedTimes : needs_sync(load(d), id, t) = needs_sync(st, id, t)

\* C13: when a record_sync call has returned, the state file holds exactly
\* the in-memory map, and a SyncState loaded from it gives the same
\* needs_sync and get_previous_filename answers for every document id.
C13_FileHoldsMap ==
    [][\A p \in PassIds :
          Recorded(p) =>
              /\ disk'.kind = "json"
              /\ disk'.map = mem'
              /\ SameAnswers(disk', mem')]_vars

\* The part of C13 the code keeps: the same, for the record_sync calls of a
\* process whose passes have not overlapped.
FileHoldsMapSequential ==
    [][\A p \in PassIds :
          Recorded(p) /\ ~hist.overlap =>
              /\ disk'.kind = "json"
              /\ disk'.map = mem'
              /\ SameAnswers(disk', mem')]_vars

\* The timestamps around t and the ones a cache document can carry.
TimesAround(t) == AskedTimes \cup {t - 1, t, t + 1}

\* C14: needs_sync(id, t2) is true for every id without an entry; after
\* record_sync(id, t, path) it is false exactly when isoformat(t2) is the
\* stored string isoformat(t), and true for every other t2, the earlier
\* ones included.
C14_NeedsSyncByString ==
    [][/\ \A id \in DocIds \ DOMAIN mem : \A t2 \in AskedTimes :
              needs_sync(mem, id, t2)
       /\ \A p \in PassIds :
            pass[p].pc = "record" /\ mem' # mem =>
                \A t2 \in TimesAround(Doc(p).updated_at) :
                    needs_sync(mem', Doc(p).id, t2)
                        <=> isoformat(t2) # isoformat(Doc(p).updated_at)]_vars

\* an entry recorded at t: needs_sync is false at t and true at the earlier
\* t - 1
C14_Witness ==
    \E d \in DOMAIN mem : \E t \in 2..(MaxEdits + 1) :
        /\ mem[d].updated_at = isoformat(t)
        /\ ~needs_sync(mem, d, t)
        /\ needs_sync(mem, d, t - 1)
        /\ needs_sync(mem, d, t + 1)

Decoded == {k \in 1..Len(hist.decoded) : hist.decoded[k].result.exc = ""}
Listed(k) == Range(hist.decoded[k].result.val)

\* C16: a document whose cache record is flagged deleted is in no list that
\* parse_cache returned, whatever its other fields hold.
C16_DeletedNeverListed ==
    \A k \in Decoded : \A doc \in Listed(k) : ~cache.docs[doc.id].deleted_at

\* a decode of a cache holding a deleted record beside a live one returned
C16_Witness ==
    \E k \in Decoded :
        /\ \E d \in DOMAIN cache.docs : cache.docs[d].deleted_at
        /\ Listed(k) # {}

\* ---- C17
Decodable(d, now) ==
    /\ cache.docs[d].dict
    /\ ~cache.docs[d].deleted_at
    /\ parse_document(d, cache.docs[d], now).exc = ""

ListedIds(k) == {doc.id : doc \in Listed(k)}

\* C17: a failure while decoding one record, whatever the record's shape,
\* stays with that record: parse_cache does not raise and returns every
\* other document that is not deleted.
C17_DecodeFailureConfined ==
    \A k \in 1..Len(hist.decoded) :
        /\ hist.decoded[k].result.exc = ""
        /\ \A d \in DOMAIN cache.docs :
              Decodable(d, hist.decoded[k].now) => d \in ListedIds(k)

\* what the try block of parse_cache does give: with every record a JSON
\* object, no call raises and exactly the decodable records are returned
ObjectRecordFailureConfined ==
    (\A d \in DOMAIN cache.docs : cache.docs[d].dict) =>
        \A k \in 1..Len(hist.decoded) :
            /\ hist.decoded[k].result.exc = ""
            /\ ListedIds(k) = {d \in DOMAIN cache.docs :
                                  Decodable(d, hist.decoded[k].now)}

\* a record that raised in _parse_document was dropped beside a returned one
ObjectRecordFailure ==
    \E k \in Decoded : \E d \in DOMAIN cache.docs :
        /\ cache.docs[d].dict /\ ~cache.docs[d].deleted_at
        /\ ~Decodable(d, hist.decoded[k].now)
        /\ ListedIds(k) # {}

\* ---- C18
\* C18: two parse_cache calls on the same cache return equal lists, also
\* when they run at different clock times.
C18_DecodeIdempotent ==
    \A j, k \in 1..Len(hist.decoded) :
        hist.decoded[j].result = hist.decoded[k].result

\* a timestamp value that carries its own instant: a number, or a string in
\* one of the three ISO formats
Fixed(v) == v.type = "number" \/ (v.type = "string" /\ v.form \in IsoFormats)

AllFixed ==
    \A d \in DOMAIN cache.docs :
        cache.docs[d].deleted_at
        \/ /\ Fixed(Or(cache.docs[d].created_at, cache.docs[d].createdAt))
           /\ Fixed(Or(cache.docs[d].updated_at, cache.docs[d].updatedAt))

\* C18 (amended): two parse_cache calls on the same cache return equal
\* lists when the created and updated values of every document that is not
\* deleted are numbers or ISO strings of the three formats, at whatever
\* clock times the calls run.
C18_DecodeIdempotentWhenFixed == AllFixed => C18_DecodeIdempotent

\* two calls at different times returned the same non-empty list, one of
\* its documents stamped by an ISO string
C18_Witness ==
    /\ AllFixed
    /\ Len(hist.decoded) = 2
    /\ hist.decoded[1].now # hist.decoded[2].now
    /\ hist.decoded[1].result = hist.decoded[2].result
    /\ hist.decoded[1].result.exc = ""
    /\ \E doc \in Listed(1) : cache.docs[doc.id].updated_at.type = "string"

\* ---- C19
\* the timestamp values _parse_document handed to _parse_timestamp in the
\* k-th call: those of the records that are objects and not deleted
ParsedValues(k) ==
    UNION {{Or(cache.docs[d].created_at, cache.docs[d].createdAt),
            Or(cache.docs[d].updated_at, cache.docs[d].updatedAt)} :
           d \in {x \in DOMAIN cache.docs :
                     cache.docs[x].dict /\ ~cache.docs[x].deleted_at}}

\* C19: _parse_timestamp returns a datetime and never raises, for every
\* input: absent, epoch seconds, epoch milliseconds (numbers above 1e12),
\* ISO strings, numeric strings and unparseable strings.
C19_ParseTimestampNeverRaises ==
    \A k \in Decoded : \A v \in ParsedValues(k) :
        parse_timestamp(v, hist.decoded[k].now).exc = ""

\* a number, read as seconds or above the threshold as milliseconds, that
\* datetime can hold
InRange(v) ==
    /\ v.form = "finite"
    /\ IF v.n > MillisThreshold
       THEN v.n \div 1000 <= MaxDatetime
       ELSE v.n >= MinDatetime /\ v.n <= MaxDatetime

\* what does hold: no exception for an absent value, for a number and a
\* numeric string within datetime's range, and for every other string
ParseTimestampToleratesRanged ==
    \A k \in Decoded : \A v \in ParsedValues(k) :
        (v.type = "none"
         \/ (v.type = "number" /\ InRange(v))
         \/ (v.type = "string" /\ (v.form \in FloatForms => v.form # "inf")))
        => parse_timestamp(v, hist.decoded[k].now).exc = ""

\* some call parsed a number above the threshold as milliseconds
MillisecondsParsed ==
    \E k \in Decoded : \E v \in ParsedValues(k) :
        v.type = "number" /\ InRange(v) /\ v.n > MillisThreshold

\* ---- C20
\* the attendee lists of a record in the order of priority: meeting
\* metadata, the record's people.attendees, the calendar event
Sources(raw) ==
    <<raw.meta,
      IF raw.people.dict THEN raw.people.attendees ELSE <<>>,
      IF raw.gcal.dict THEN raw.gcal.attendees ELSE <<>>>>

FirstNonEmpty(sources) ==
    IF \E i \in 1..Len(sources) : sources[i] # <<>>
    THEN sources[CHOOSE i \in 1..Len(sources) :
                    /\ sources[i] # <<>>
                    /\ \A j \in 1..(i - 1) : sources[j] = <<>>]
    ELSE <<>>

NameOf(entry) ==
    IF entry.name # "" THEN entry.name
    ELSE IF entry.email # "" THEN entry.email ELSE "Unknown"

\* C20: the attendees of a decoded document are the entries of exactly one
\* source, the first non-empty one of meeting metadata, people.attendees
\* and calendar event, one attendee per entry in the entry's order; entries
\* of the other sources are not used.
C20_AttendeesFromFirstSource ==
    \A k \in Decoded : \A doc \in Listed(k) :
        LET source == FirstNonEmpty(Sources(cache.docs[doc.id]))
        IN  /\ Len(doc.attendees) = Len(source)
            /\ \A i \in 1..Len(source) :
                  /\ doc.attendees[i].name = NameOf(source[i])
                  /\ doc.attendees[i].email = source[i].email
                  /\ doc.attendees[i].is_organizer = source[i].organizer

\* a record with all three sources non-empty was decoded to the meeting
\* metadata's attendees
C20_Witness ==
    \E k \in Decoded : \E doc \in Listed(k) :
        LET sources == Sources(cache.docs[doc.id])
        IN  /\ \A i \in 1..3 : sources[i] # <<>>
            /\ doc.attendees # <<>>
            /\ \A i \in 1..Len(doc.attendees) :
                  doc.attendees[i].name \in {"M", "N"}

\* ---- C21
Injections == 1..Len(hist.injected)
Terms == {"sam", "bob", "ab"}

\* the positions of a text where a link [[word]] to the term stands
LinksTo(text, term) ==
    {i \in 1..(Len(text) - 4) :
        /\ text[i] = "[" /\ text[i + 1] = "["
        /\ text[i + 2] \in Words /\ ignorecase(text[i + 2]) = term
        /\ text[i + 3] = "]" /\ text[i + 4] = "]"}

\* C21: in the result of inject_wikilinks every term, compared without
\* regard to case, is linked at most once.
C21_TermLinkedOnce ==
    \A n \in Injections : \A term \in Terms :
        Cardinality(LinksTo(hist.injected[n].result, term)) <= 1

\* what does hold: a term that the text given neither links already nor
\* spells with U+017F is linked at most once in the result
TermLinkedOnceWhenUnlinked ==
    \A n \in Injections : \A term \in Terms :
        (/\ LinksTo(hist.injected[n].text, term) = {}
         /\ "{long s}am" \notin Range(hist.injected[n].text))
        => Cardinality(LinksTo(hist.injected[n].result, term)) <= 1

\* a text with two occurrences of a term came back with the first linked
\* and the second as it was
SecondOccurrenceSkipped ==
    \E n \in Injections :
        /\ hist.injected[n].text = <<"Sam", " ", "sam">>
        /\ hist.injected[n].result = <<"[", "[", "Sam", "]", "]", " ", "sam">>

\* ---- C22
\* the positions of the text given that the result shows wrapped in [[ ]]:
\* the two are read side by side, a token that differs was replaced by the
\* five tokens of a link
RECURSIVE Wrapped(_, _, _, _)
Wrapped(text, result, i, j) ==
    IF i > Len(text) THEN {}
    ELSE IF j <= Len(result) /\ result[j] = text[i]
         THEN Wrapped(text, result, i + 1, j + 1)
         ELSE {i} \cup Wrapped(text, result, i + 1, j + 5)

WrappedBy(n) == Wrapped(hist.injected[n].text, hist.injected[n].result, 1, 1)

\* the result is the text given with every wrapped word replaced by a link
\* to a word that differs from it in case only, and nothing else changed
RECURSIVE Rewrites(_, _, _, _)
Rewrites(text, result, i, j) ==
    IF i > Len(text) THEN j = Len(result) + 1
    ELSE IF j <= Len(result) /\ result[j] = text[i]
         THEN Rewrites(text, result, i + 1, j + 1)
         ELSE /\ j + 4 <= Len(result)
              /\ text[i] \in Words
              /\ result[j] = "[" /\ result[j + 1] = "["
              /\ result[j + 2] \in Words
              /\ ignorecase(result[j + 2]) = ignorecase(text[i])
              /\ result[j + 3] = "]" /\ result[j + 4] = "]"
              /\ Rewrites(text, result, i + 1, j + 5)

\* the "]" that closes the "[" before position j, brackets nesting, or 0
RECURSIVE Closing(_, _, _)
Closing(text, j, depth) ==
    IF j > Len(text) THEN 0
    ELSE IF text[j] = "]" THEN (IF depth = 1 THEN j ELSE Closing(text, j + 1, depth - 1))
    ELSE IF text[j] = "[" THEN Closing(text, j + 1, depth + 1)
    ELSE Closing(text, j + 1, depth)

\* the Markdown links [text](destination) of a text, the link text with
\* brackets that pair up; each as <<start, end>>, end exclusive
LinkEnd(text, i) ==
    LET j == Closing(text, i + 1, 1)
        k == IF j = 0 THEN 0 ELSE First(text, j + 2, {")"})
    IN  IF text[i] = "[" /\ j # 0 /\ Is(text, j + 1, "(") /\ k >= j + 3
        THEN k + 1 ELSE 0

MarkdownLinks(text) ==
    {<<i, LinkEnd(text, i)>> : i \in {x \in 1..Len(text) : LinkEnd(text, x) # 0}}

Inside(text, zones) ==
    {i \in 1..Len(text) : \E z \in zones : i >= z[1] /\ i < z[2]}

\* C22: inject_wikilinks changes nothing inside a leading frontmatter
\* block, a fenced code block, an inline code span, an existing [[link]],
\* a Markdown link or a bare URL of the text given.
C22_ProtectedZonesUnchanged ==
    \A n \in Injections :
        /\ Rewrites(hist.injected[n].text, hist.injected[n].result, 1, 1)
        /\ WrappedBy(n) \cap Inside(hist.injected[n].text,
                                    build_protected_zones(hist.injected[n].text)
                                    \cup MarkdownLinks(hist.injected[n].text)) = {}

\* what does hold: nothing changes inside a range one of the six patterns
\* matches
PatternZonesUnchanged ==
    \A n \in Injections :
        /\ Rewrites(hist.injected[n].text, hist.injected[n].result, 1, 1)
        /\ WrappedBy(n) \cap Inside(hist.injected[n].text,
                                    build_protected_zones(hist.injected[n].text)) = {}

\* a term was linked outside a zone and left alone inside one
LinkedBesideZone ==
    \E n \in Injections :
        /\ WrappedBy(n) # {}
        /\ \E i \in Inside(hist.injected[n].text,
                           build_protected_zones(hist.injected[n].text)) :
              hist.injected[n].text[i] = "Sam"

\* ---- C23
\* four opening brackets in a row
Quad(text) ==
    \E i \in 1..(Len(text) - 3) : \A k \in 0..3 : text[i + k] = "["

\* the positions of a text where "[[" stands, and where "]]" stands
Opens(text) == {p \in 1..(Len(text) - 1) : text[p] = "[" /\ text[p + 1] = "["}
Closes(text) == {p \in 1..(Len(text) - 1) : text[p] = "]" /\ text[p + 1] = "]"}

\* position i of the text lies after a "[[" that no "]]" has closed
InsideOpenLink(text, i) ==
    \E p \in Opens(text) :
        /\ p + 1 < i
        /\ \A q \in Closes(text) : ~(q > p + 1 /\ q + 1 < i)

\* C23: inject_wikilinks makes no nested or doubled brackets: the result
\* has no "[[[[" the text given had not, and no link is put inside a
\* bracketed link that is still open.
C23_NoNestedBrackets ==
    \A n \in Injections :
        /\ ~Quad(hist.injected[n].text) => ~Quad(hist.injected[n].result)
        /\ \A i \in WrappedBy(n) : ~InsideOpenLink(hist.injected[n].text, i)

\* what does hold: no such brackets when every "[[" of the text given
\* starts an existing link as _EXISTING_WIKILINK_RE matches it
NoNestedBracketsWhenClosed ==
    \A n \in Injections :
        (Opens(hist.injected[n].text) \subseteq
            Inside(hist.injected[n].text,
                   finditer("_EXISTING_WIKILINK_RE", hist.injected[n].text, 1)))
        => /\ ~Quad(hist.injected[n].text) => ~Quad(hist.injected[n].result)
           /\ \A i \in WrappedBy(n) : ~InsideOpenLink(hist.injected[n].text, i)

\* a term inside an existing link was left as it was
TermInLinkSkipped ==
    \E n \in Injections :
        /\ hist.injected[n].text = <<"[", "[", "Bob", " ", "sam", "]", "]">>
        /\ hist.injected[n].terms # Empty
        /\ hist.injected[n].result = hist.injected[n].text

\* ---- C24
\* pass p has just resolved the target directory of its current document
Resolved(p) == pass[p].pc = "compose" /\ pass'[p].pc \in {"unlink", "write"}

\* C24: for each candidate document run_sync takes the target directory
\* by the first rule that applies: (i) a file exists at
\* notes_dir/new_filename: notes_dir; (ii) the recorded previous path
\* exists: its directory, and the old file is to be deleted when its name
\* differs from the new one (not in a dry run); (iii) a previous path is
\* recorded but missing: the directory of a file the marker search finds,
\* else notes_dir; (iv) nothing recorded: notes_dir.
C24_TargetByFirstRule ==
    [][\A p \in PassIds : Resolved(p) =>
        LET new == make_filename(Doc(p))
            recorded == get_previous_filename(mem, Doc(p).id)
            previous == old_abs_of(recorded)
            marked == FindMatches(vault, Doc(p).id)
        IN  IF <<notes_dir, new>> \in DOMAIN vault
            THEN pass'[p].target_dir = notes_dir /\ pass'[p].victim = <<>>
            ELSE IF recorded # <<>> /\ previous \in DOMAIN vault
            THEN /\ pass'[p].target_dir = previous[1]
                 /\ pass'[p].victim =
                       IF previous[2] # new /\ ~pass[p].dry_run THEN previous ELSE <<>>
            ELSE IF recorded # <<>> /\ marked # {}
            THEN \E file \in marked : pass'[p].target_dir = file[1]
            ELSE pass'[p].target_dir = notes_dir /\ pass'[p].victim = <<>>
    ]_vars

\* the recorded path was missing, no file stood at the expected path, and
\* the search found the note in another directory
C24_Witness ==
    /\ pass[0].pc \in {"unlink", "write"}
    /\ hist.run[0].old_abs # <<>>
    /\ ~hist.run[0].old_exists
    /\ ~hist.run[0].expected_exists
    /\ pass[0].target_dir # notes_dir

\* rule (ii) was taken with a rename: the old file is to be deleted
RenameInPlace ==
    /\ pass[0].pc = "unlink"
    /\ hist.run[0].old_exists
    /\ pass[0].victim = hist.run[0].old_abs

\* ---- C25
\* the files a step wrote or deleted
Touched == {path \in DOMAIN vault \cup DOMAIN vault' :
               \/ path \notin DOMAIN vault
               \/ path \notin DOMAIN vault'
               \/ vault[path] # vault'[path]}

\* the file the state map records as the last one written for document d
RecordedFile(d) == old_abs_of(get_previous_filename(mem, d))

\* C25: the note file recorded as last written for a document A is written
\* or deleted only while a pass is processing A, never while it is
\* processing another document B.
C25_OnlyOwnNoteTouched ==
    [][\A p \in PassIds :
        (pass[p].pc \in {"unlink", "write"} /\ pass'[p] # pass[p]) =>
            \A A \in DocIds \ {Doc(p).id} : RecordedFile(A) \notin Touched
    ]_vars

\* what does hold: a pass touches the recorded note of another document
\* only at the path of its own document's new file name, that is when
\* make_filename gives both documents one name
OtherNoteTouchedOnlyByNameClash ==
    [][\A p \in PassIds :
        (pass[p].pc \in {"unlink", "write"} /\ pass'[p] # pass[p]) =>
            \A A \in DocIds \ {Doc(p).id} :
                RecordedFile(A) \in Touched =>
                    \/ RecordedFile(A)[2] = make_filename(Doc(p))
                    \/ RecordedFile(A) = RecordedFile(Doc(p).id)
    ]_vars

\* ---- C26
\* pass p ends the processing of its current document with this step
Ended(p) == pass[p].pc \in {"write", "save"} /\ pass'[p].pc \in {"compose", "done"}

\* the processing of the current document has removed its old file
OldFileRemoved(p) == pass[p].victim # <<>>

\* C26: when the processing of a document has removed its old file, a
\* note file of that document exists in the vault when the processing ends,
\* whether it ends normally or with an exception.
C26_OldFileReplaced ==
    [][\A p \in PassIds : (Ended(p) /\ OldFileRemoved(p)) =>
            \E path \in DOMAIN vault' : vault'[path].doc = Doc(p).id
    ]_vars

\* what does hold: the note exists whenever write_note has returned
OldFileReplacedWhenWritten ==
    [][\A p \in PassIds :
        (Ended(p) /\ OldFileRemoved(p) /\ pass[p].pc = "save") =>
            \E path \in DOMAIN vault' : vault'[path].doc = Doc(p).id
    ]_vars

\* a rename is half done: the old file is removed, the new one not written
OldFileGone ==
    /\ pass[0].pc = "write"
    /\ pass[0].victim # <<>>
    /\ pass[0].victim \notin DOMAIN vault

\* ---- C27
\* the documents the next pass of this process would select now
Candidates ==
    {doc.id : doc \in {x \in Range(parse_cache(cache, clock).val) :
                          needs_sync(mem, x.id, x.updated_at)}}

LiveIds == {d \in DOMAIN cache.docs : ~cache.docs[d].deleted_at}

\* pass p of the watcher is over, it was no dry run, it is the only pass
\* so far that found documents to sync, no other pass is running, and the
\* cache is as pass p read it
OnlyPass(p) ==
    /\ proc.mode = "watching"
    /\ ~proc.dry_run
    /\ pass[p].pc = "done"
    /\ \A q \in PassIds \ {p} :
          /\ pass[q].pc \in {"idle", "done"}
          /\ hist.run[q].documents = <<>>
    /\ hist.run[p].cache0 = cache

FailedIn(p, steps) ==
    {hist.run[p].failed[k].id :
        k \in {x \in 1..Len(hist.run[p].failed) : hist.run[p].failed[x].at \in steps}}

\* C27: a document whose processing failed in a pass is selected again by
\* the next pass of the same process while the cache is unchanged.
C27_FailedIsRetried ==
    \A p \in PassIds : OnlyPass(p) =>
        (FailedIn(p, {"compose", "unlink", "write", "record"}) \cap LiveIds)
            \subseteq Candidates

\* what does hold: a document that failed before record_sync was called is
\* selected again
FailedBeforeRecordIsRetried ==
    \A p \in PassIds : OnlyPass(p) =>
        (FailedIn(p, {"compose", "unlink", "write"}) \cap LiveIds) \subseteq Candidates

\* a write failed in a pass and the document is a candidate still
FailedWriteRetried ==
    \E p \in PassIds :
        /\ OnlyPass(p)
        /\ FailedIn(p, {"write"}) \cap LiveIds \cap Candidates # {}

\* ---- C28
\* pass p has just handed the path of the file it wrote to record_sync
Stored(p) == pass[p].pc = "record" /\ pass'[p].pc = "save"

\* C28: the path record_sync stores resolves back to the file that was
\* written: the absolute path the next pass computes from the stored
\* relative path is the path of the file written, for the notes folder,
\* another folder and the vault root.
C28_StoredPathResolves ==
    [][\A p \in PassIds : Stored(p) =>
            old_abs_of(get_previous_filename(mem', Doc(p).id)) = pass[p].filepath
    ]_vars

\* what does hold: the stored path resolves to the file written in the
\* notes folder and in every other folder below the vault root
StoredPathResolvesInFolders ==
    [][\A p \in PassIds : (Stored(p) /\ pass[p].filepath[1] # vault_path) =>
            old_abs_of(get_previous_filename(mem', Doc(p).id)) = pass[p].filepath
    ]_vars

\* a note was written to a folder that is not the notes folder and recorded
RecordedInOtherFolder ==
    /\ pass[0].pc = "save"
    /\ pass[0].filepath[1] = OtherDir
    /\ old_abs_of(get_previous_filename(mem, Doc(0).id)) = pass[0].filepath

\* ---- C29 ----------------------------------------------------------------
\* The pass of the newest timer has been started and has read the cache file
\* as it is now.
Served ==
    /\ handler.timer \in DOMAIN timers
    /\ timers[handler.timer] = "fired"
    /\ pass[handler.timer].pc # "load"
    /\ hist.run[handler.timer].cache0 = cache

\* Every modification event of the cache file has been delivered and the
\* newest of them has been served.
NoTriggerPending ==
    /\ handler.queue = <<>>
    /\ hist.bursts > 0 => Served

\* C29: in watch mode no trigger is lost: once no further event arrives, and
\* the process keeps running, every event has been delivered and a pass that
\* started after the last modification event of the cache file has read the
\* cache as the last write left it, and this stays so.
C29_NoTriggerLost == <>[](proc.mode = "watching" => NoTriggerPending)

\* Two modification events in one burst: the first timer was cancelled, and
\* the pass of the second one read what the second write left.
C29_Witness ==
    /\ proc.mode = "watching"
    /\ edits = MaxEvents
    /\ NoTriggerPending
    /\ handler.timer = 2
    /\ timers[1] = "cancelled"
    /\ hist.run[2].cache0 # hist.run[0].cache0

\* ---- C30 ----------------------------------------------------------------
Renderings == 1..Len(hist.rendered)

\* C30: prosemirror_to_markdown is total: it raises for no input tree, the
\* malformed ones included (a null content list, a node that is no object, a
\* heading level that is no integer).
C30_RenderIsTotal ==
    \A n \in Renderings : hist.rendered[n].result.exc = ""

Has(v, key) == v.json = "dict" /\ key \in DOMAIN v.fields

IsA(v, key, kind) == Has(v, key) => v.fields[key].json = kind

\* every field a mark holds is of the type the renderer expects
WellTypedMark(mark) ==
    /\ mark.json = "dict"
    /\ IsA(mark, "attrs", "dict")

\* every field a node holds is of the type the renderer expects, and so for
\* the nodes below it; any field may be absent
RECURSIVE WellTyped(_)
WellTyped(node) ==
    /\ node.json = "dict"
    /\ IsA(node, "text", "str")
    /\ IsA(node, "marks", "list")
    /\ IsA(node, "attrs", "dict")
    /\ IsA(node, "content", "list")
    /\ Has(node, "attrs") => IsA(node.fields["attrs"], "level", "int")
    /\ Has(node, "marks") =>
           \A i \in 1..Len(node.fields["marks"].items) :
               WellTypedMark(node.fields["marks"].items[i])
    /\ Has(node, "content") =>
           \A i \in 1..Len(node.fields["content"].items) :
               WellTyped(node.fields["content"].items[i])

\* the node with every absent field set to the default the claim names
Default(fields, key, v) == IF key \in DOMAIN fields THEN fields ELSE Put(fields, key, v)

RECURSIVE Filled(_)
Filled(node) ==
    LET content == IF Has(node, "content") THEN node.fields["content"].items ELSE <<>>
        attrs == IF Has(node, "attrs") THEN node.fields["attrs"].fields ELSE Empty
        whole == Default(Default(Default(node.fields, "type", JStr(<<>>)),
                                 "text", JStr(<<>>)), "marks", JList(<<>>))
    IN  JDict(Put(Put(whole,
            "content", JList([i \in 1..Len(content) |-> Filled(content[i])])),
            "attrs", JDict(Default(attrs, "level", JInt(1)))))

\* On trees whose present fields are well typed the renderer raises nothing
\* and renders an absent field as the empty string, the empty list or
\* level 1 would be rendered.
RenderIsTotalOnTypedTrees ==
    \A n \in Renderings :
        LET doc == hist.rendered[n].doc
        IN  doc.json = "dict" /\ WellTyped(doc) =>
                /\ hist.rendered[n].result.exc = ""
                /\ hist.rendered[n].result = prosemirror_to_markdown(Filled(doc))

\* a heading without attrs is rendered at level 1
HeadingLevelDefaulted ==
    \E n \in Renderings :
        /\ WellTyped(hist.rendered[n].doc)
        /\ hist.rendered[n].doc # Filled(hist.rendered[n].doc)
        /\ hist.rendered[n].result = Returns(<<"#", " ", "t">>)

\* a null content list raises TypeError
NullContentRaises ==
    \E n \in Renderings :
        /\ Has(hist.rendered[n].doc, "content")
        /\ hist.rendered[n].doc.fields["content"] = JNull
        /\ hist.rendered[n].result = Raises("TypeError")

====
